---- MODULE Spec2Model ----
(***************************************************************************)
(* Panel state store of the realtime Tigo monitor                          *)
(* (dashboard/backend/app/panel_service.py): topology load and hot reload, *)
(* telemetry merge, unknown-serial ledger and staleness.                   *)
(*                                                                         *)
(* Optional values (Python None / a value) are sequences of length 0 or 1. *)
(* Time is counted in whole seconds; file modification times and           *)
(* datetime.now() read the same clock.                                     *)
(***************************************************************************)
EXTENDS Integers, Sequences, FiniteSets, TLC

VARIABLES now, yaml_file, json_file, settings,
          panel_mapping, using_yaml, panels_by_sn, panel_state, last_update,
          unknown_serials_logged, config_mtime, temp_nodes, node_id_to_panel,
          node_mappings, log_warnings, last

\* ConnectionManager (backend/app/websocket_manager.py) and the WebSocket
\* endpoints that use it; queued and cycle record what was queued since the
\* last batch cycle and what that cycle did.
VARIABLES active_connections, pending_update, panel_data, passes, endpoint,
          broken, queued, cycle

\* The periodic tasks of the manager: batch_task and heartbeat_task are the
\* task handles, loops counts the running instances of each loop, stopping
\* is the position of stop_background_tasks and starts counts the calls of
\* start_background_tasks; stalled are the connections whose peer has
\* stopped reading, so that a write to them never completes; screen is the
\* last panels message written to each connection; disconnects lists the
\* connections of the disconnect calls that were made on the manager directly.
VARIABLES batch_task, heartbeat_task, loops, stopping, starts, stalled, screen,
          disconnects

\* MQTTClient (dashboard/backend/app/mqtt_client.py): phase is the position
\* of _connect_loop; wait is the running reconnect sleep; run counts the
\* errors since the loop last reached its message loop (since_subscribed) and
\* since it last connected (since_connected); inflight is the message being
\* processed and dispatched the callbacks invoked for it.
VARIABLES running, retry_delay, phase, subscriptions, cancelling,
          stop_returned, wait, run, inflight, dispatched

\* Setup-wizard discovery (dashboard/backend/app/config_models.py): the
\* arguments of parse_tigo_label and match_discovered_panel and what they
\* returned.
VARIABLES raw_label, parsed, discovered, expected_topology, known_panels,
          match_result

\* The event loop (dashboard/backend/app/main.py): current is the task that
\* holds the loop, handler_at the handler each task is in and its next step,
\* inside the tasks that have begun a store operation and not finished it.
VARIABLES current, handler_at, inside

schedVars == <<current, handler_at, inside>>

\* DiscoveryService (dashboard/backend/app/discovery_service.py):
\* discovered_panels, service_running (_running) and mqtt_task are its
\* fields; loop_tasks is the state of every _discovery_loop task created so
\* far, stops the task each stop_discovery call is awaiting, sighting the
\* state message processed last, emitted the events emitted for it, sighted
\* the serials sighted since the map was last cleared.
VARIABLES discovered_panels, service_running, mqtt_task, loop_tasks, stops,
          sighting, emitted, sighted

serviceVars == <<discovered_panels, service_running, mqtt_task, loop_tasks,
                 stops, sighting, emitted, sighted>>

storeVars == <<panel_mapping, using_yaml, panels_by_sn, panel_state,
               last_update, unknown_serials_logged, config_mtime, temp_nodes,
               node_id_to_panel, node_mappings, log_warnings>>

envVars == <<now, yaml_file, json_file, settings>>

taskVars == <<batch_task, heartbeat_task, loops, stopping, starts>>

managerVars == <<active_connections, pending_update, panel_data, passes,
                 endpoint, broken, queued, cycle, taskVars, stalled, screen,
                 disconnects>>

clientVars == <<running, retry_delay, phase, subscriptions, cancelling,
                stop_returned, wait, run, inflight, dispatched>>

discoveryVars == <<raw_label, parsed, discovered, expected_topology,
                  known_panels, match_result>>

\* Everything outside the panel store and its files.
nonStoreVars ==
    <<managerVars, clientVars, discoveryVars, schedVars, serviceVars>>

outsideManager ==
    <<envVars, storeVars, last, clientVars, discoveryVars, schedVars,
      serviceVars>>

outsideClient ==
    <<envVars, storeVars, last, managerVars, discoveryVars, schedVars,
      serviceVars>>

outsideDiscovery ==
    <<envVars, storeVars, last, managerVars, clientVars, schedVars,
      serviceVars>>

outsideSched ==
    <<envVars, storeVars, last, managerVars, clientVars, discoveryVars,
      serviceVars>>

outsideService ==
    <<envVars, storeVars, last, managerVars, clientVars, discoveryVars,
      schedVars>>

vars == <<envVars, storeVars, last, nonStoreVars>>

----------------------------------------------------------------------------
(* Bounds of the model *)

\* Last second of the clock in the hot-reload runs; it has to exceed the
\* 2-second mtime tolerance.
MaxTime == 3

\* The staleness threshold in seconds that the runs are configured with
\* (Settings.staleness_threshold_seconds, 300 unless overridden).
MaxThreshold == 1

\* Most queue_update calls between two batch cycles.
MaxQueued == 3

\* Most consecutive errors of the MQTT connect loop without a message loop
\* in between; the retry delay reaches its cap at the seventh.
MaxErrors == 8

\* Longest label handed to parse_tigo_label.
MaxLabelLen == 3

\* Most disconnect calls made on one registry.
MaxCalls == 3

\* Most calls of start_background_tasks in one run.
MaxStarts == 2

\* Most _discovery_loop tasks created in one run.
MaxTasks == 3

----------------------------------------------------------------------------
(* Optional values *)

None == <<>>

Some(v) == <<v>>

IsNone(o) == o = <<>>

Val(o) == o[1]

Range(seq) == {seq[i] : i \in DOMAIN seq}

----------------------------------------------------------------------------
(* Topology sources on disk *)

Position(x, y) == [x_percent |-> x, y_percent |-> y]

JsonPanel(sn, label, str, sys, x, y) ==
    [sn |-> sn, tigo_label |-> label, display_label |-> label, string |-> str,
     system |-> sys, position |-> Position(x, y)]

YamlPanel(serial, label, str, cca, pos) ==
    [serial |-> serial, tigo_label |-> label, display_label |-> label,
     string |-> str, cca |-> cca, position |-> pos]

\* Contents the legacy JSON file (config/panel_mapping.json) can have.
JsonSources ==
    [J_A   |-> [parses |-> TRUE,
                panels |-> <<JsonPanel("s1", "A1", "A", "primary", 15, 23)>>],
     J_AB  |-> [parses |-> TRUE,
                panels |-> <<JsonPanel("s1", "A1", "A", "primary", 15, 23),
                             JsonPanel("s2", "A2", "A", "primary", 18, 23)>>],
     J_dup |-> [parses |-> TRUE,
                panels |-> <<JsonPanel("s1", "A1", "A", "primary", 15, 23),
                             JsonPanel("s1", "A2", "A", "primary", 18, 23)>>],
     J_bad |-> [parses |-> FALSE, panels |-> <<>>]]

\* Contents the YAML file (config/panels.yaml) can have.
YamlSources ==
    [Y_AB  |-> [parses |-> TRUE,
                panels |-> <<YamlPanel("s1", "A1", "A", "primary", None),
                             YamlPanel("s2", "A2", "A", "primary", None)>>],
     Y_B   |-> [parses |-> TRUE,
                panels |-> <<YamlPanel("s2", "A2", "B", "secondary",
                                       Some(Position(40, 60)))>>],
     Y_bad |-> [parses |-> FALSE, panels |-> <<>>]]

Absent == [exists |-> FALSE, content |-> "", mtime |-> 0]

File(c, m) == [exists |-> TRUE, content |-> c, mtime |-> m]

Serials == {"s1", "s2", "s9"}

Systems == {"primary", "secondary"}

----------------------------------------------------------------------------
(* models.py *)

PanelConfig(sn, tigo_label, display_label, str, system, position) ==
    [sn |-> sn, tigo_label |-> tigo_label, display_label |-> display_label,
     string |-> str, system |-> system, position |-> position]

\* Variant of the validator that accepts every list of panels.
validate_unique_serial_numbers_AcceptAll(panels) == Len(panels) >= 0

\* PanelMapping's field validator: no serial number occurs twice.
validate_unique_serial_numbers(panels) ==
    LET sns == [i \in DOMAIN panels |-> panels[i].sn]
    IN  Len(sns) = Cardinality(Range(sns))

TelemetryFields ==
    {"watts", "voltage_in", "voltage_out", "current_in", "current_out",
     "temperature", "duty_cycle", "rssi", "energy"}

\* The telemetry part of a PanelData record.
Telemetry(pd) == [f \in TelemetryFields |-> pd[f]]

NoTelemetry == [f \in TelemetryFields |-> None]

----------------------------------------------------------------------------
(* PanelService: loading the topology *)

\* The service object as one record (the attributes set in __init__).
Self ==
    [panel_mapping |-> panel_mapping, using_yaml |-> using_yaml,
     panels_by_sn |-> panels_by_sn, panel_state |-> panel_state,
     last_update |-> last_update,
     unknown_serials_logged |-> unknown_serials_logged,
     config_mtime |-> config_mtime, temp_nodes |-> temp_nodes,
     node_id_to_panel |-> node_id_to_panel, node_mappings |-> node_mappings,
     log_warnings |-> log_warnings]

margin == 5

usable == 90

CeilSqrt(n) == CHOOSE c \in 0..n : c * c >= n /\ (c = 0 \/ (c - 1) * (c - 1) < n)

CeilDiv(a, b) == (a + b - 1) \div b

Max(a, b) == IF a >= b THEN a ELSE b

\* Panels of a YAML document as PanelConfig records: 'serial' and 'cca' are
\* renamed, and panels without a position are laid out on a grid.
YamlPanels(doc) ==
    LET unpositioned == {i \in DOMAIN doc : IsNone(doc[i].position)}
        count == Cardinality(unpositioned)
        cols == CeilSqrt(count)
        rows == CeilDiv(count, Max(cols, 1))
        col_step == usable \div Max(cols, 1)
        row_step == usable \div Max(rows, 1)
        idx(i) == Cardinality({j \in unpositioned : j < i})
        grid(i) == Position(margin + (idx(i) % cols) * col_step,
                            margin + (idx(i) \div cols) * row_step)
    IN  [i \in DOMAIN doc |->
           PanelConfig(doc[i].serial, doc[i].tigo_label, doc[i].display_label,
                       doc[i].string, doc[i].cca,
                       IF IsNone(doc[i].position) THEN grid(i)
                       ELSE Val(doc[i].position))]

\* Panels of a legacy JSON document as PanelConfig records.
JsonPanels(doc) ==
    [i \in DOMAIN doc |->
       PanelConfig(doc[i].sn, doc[i].tigo_label, doc[i].display_label,
                   doc[i].string, doc[i].system, doc[i].position)]

\* Variant of LoadedPanelData that starts every loaded panel without power
\* and voltage readings, whatever it had before.
LoadedPanelData_Reset(panel, old) ==
    LET keep(f, default) == IF IsNone(old) THEN default ELSE Val(old)[f]
    IN  [display_label |-> panel.display_label,
         tigo_label |-> panel.tigo_label,
         string |-> panel.string,
         system |-> panel.system,
         sn |-> panel.sn,
         node_id |-> keep("node_id", None),
         watts |-> None,
         voltage_in |-> None,
         voltage_out |-> keep("voltage_out", None),
         current_in |-> keep("current_in", None),
         current_out |-> keep("current_out", None),
         temperature |-> keep("temperature", None),
         duty_cycle |-> keep("duty_cycle", None),
         rssi |-> keep("rssi", None),
         energy |-> keep("energy", None),
         online |-> keep("online", TRUE),
         stale |-> keep("stale", FALSE),
         is_temporary |-> keep("is_temporary", FALSE),
         actual_system |-> None,
         last_update |-> keep("last_update", None),
         position |-> panel.position]

\* PanelData built for one topology entry during a load; old is the panel's
\* previous PanelData (Some) or None.
LoadedPanelData(panel, old) ==
    LET keep(f, default) == IF IsNone(old) THEN default ELSE Val(old)[f]
    IN  [display_label |-> panel.display_label,
         tigo_label |-> panel.tigo_label,
         string |-> panel.string,
         system |-> panel.system,
         sn |-> panel.sn,
         node_id |-> keep("node_id", None),
         watts |-> keep("watts", None),
         voltage_in |-> keep("voltage_in", None),
         voltage_out |-> keep("voltage_out", None),
         current_in |-> keep("current_in", None),
         current_out |-> keep("current_out", None),
         temperature |-> keep("temperature", None),
         duty_cycle |-> keep("duty_cycle", None),
         rssi |-> keep("rssi", None),
         energy |-> keep("energy", None),
         online |-> keep("online", TRUE),
         stale |-> keep("stale", FALSE),
         is_temporary |-> keep("is_temporary", FALSE),
         actual_system |-> None,
         last_update |-> keep("last_update", None),
         position |-> panel.position]

Labels(panels) == {panels[i].display_label : i \in DOMAIN panels}

\* The dict {p.sn: p for p in panels}: a later entry wins.
BySn(panels) ==
    [sn \in {panels[i].sn : i \in DOMAIN panels} |->
       panels[CHOOSE i \in DOMAIN panels :
                /\ panels[i].sn = sn
                /\ \A j \in DOMAIN panels : panels[j].sn = sn => j <= i]]

\* The loop that writes one PanelData per topology entry into panel_state;
\* entries of panel_state under other labels are not touched.
MergePanelState(panels, old_state) ==
    LET lastWith(l) == CHOOSE i \in DOMAIN panels :
                          /\ panels[i].display_label = l
                          /\ \A j \in DOMAIN panels :
                                panels[j].display_label = l => j <= i
        old(l) == IF l \in DOMAIN old_state THEN Some(old_state[l]) ELSE None
    IN  [l \in DOMAIN old_state \cup Labels(panels) |->
           IF l \in Labels(panels)
           THEN LoadedPanelData(panels[lastWith(l)], old(l))
           ELSE old_state[l]]

\* The assignments both loaders make once the mapping has been validated.
Installed(s, panels, mtime, is_yaml) ==
    [s EXCEPT !.panel_mapping = Some(panels),
              !.config_mtime = mtime,
              !.using_yaml = is_yaml,
              !.panels_by_sn = BySn(panels),
              !.panel_state = MergePanelState(panels, s.panel_state)]

_load_yaml_config(s, f) ==
    LET src == YamlSources[f.content]
    IN  IF ~src.parses THEN [s |-> s, err |-> "ParseError"]
        ELSE IF ~validate_unique_serial_numbers(YamlPanels(src.panels))
        THEN [s |-> s, err |-> "ValidationError"]
        ELSE [s |-> Installed(s, YamlPanels(src.panels), f.mtime, TRUE),
              err |-> "none"]

_load_legacy_json_config(s, f) ==
    LET src == JsonSources[f.content]
    IN  IF ~src.parses THEN [s |-> s, err |-> "ParseError"]
        ELSE IF ~validate_unique_serial_numbers(JsonPanels(src.panels))
        THEN [s |-> s, err |-> "ValidationError"]
        ELSE [s |-> Installed(s, JsonPanels(src.panels), f.mtime, FALSE),
              err |-> "none"]

\* load_config: YAML takes precedence over the legacy JSON file.
load_config(s, yf, jf) ==
    IF yf.exists THEN _load_yaml_config(s, yf)
    ELSE IF ~jf.exists THEN [s |-> s, err |-> "NotFound"]
    ELSE _load_legacy_json_config(s, jf)

----------------------------------------------------------------------------
(* PanelService: telemetry, staleness, hot reload *)

\* int(node_id) of the node identifiers that occur; None is a ValueError.
ParseInt(str) ==
    CASE str = "1" -> Some(1)
      [] str = "2" -> Some(2)
      [] OTHER -> None

\* The arguments of one update_panel call; an argument left out of the call
\* is None and takes the default of the signature.
UpdateArgs(sn, telemetry, online, timestamp, node_id, actual_system) ==
    [sn |-> sn, telemetry |-> telemetry, online |-> online,
     timestamp |-> timestamp, node_id |-> node_id,
     actual_system |-> actual_system]

\* Default of update_panel's online parameter.
EffectiveOnline(online) == IF IsNone(online) THEN TRUE ELSE Val(online)

\* Node id used by update_panel: the argument, else the one already stored.
EffectiveNodeId(node_id, existing) ==
    IF ~IsNone(node_id) THEN node_id
    ELSE IF IsNone(existing) THEN None ELSE Val(existing).node_id

IsTemporary(s, system, effective_node_id) ==
    /\ ~IsNone(effective_node_id)
    /\ ~IsNone(ParseInt(Val(effective_node_id)))
    /\ system \in DOMAIN s.temp_nodes
    /\ Val(ParseInt(Val(effective_node_id))) \in s.temp_nodes[system]

\* Variant of NewTelemetry that keeps the stored value of a field the call
\* does not supply.
NewTelemetry_Merge(a, existing) ==
    [f \in TelemetryFields |->
       IF IsNone(a.telemetry[f]) /\ ~IsNone(existing)
       THEN Val(existing)[f] ELSE a.telemetry[f]]

\* Telemetry fields written by update_panel: the arguments as they came.
NewTelemetry(a, existing) == a.telemetry

\* PanelData written by a matched update_panel call at time t.
UpdatedPanelData(s, panel_config, a, t) ==
    LET label == panel_config.display_label
        existing == IF label \in DOMAIN s.panel_state
                    THEN Some(s.panel_state[label]) ELSE None
        effective_node_id == EffectiveNodeId(a.node_id, existing)
        tm == NewTelemetry(a, existing)
    IN  [display_label |-> label,
         tigo_label |-> panel_config.tigo_label,
         string |-> panel_config.string,
         system |-> panel_config.system,
         sn |-> panel_config.sn,
         node_id |-> effective_node_id,
         watts |-> tm.watts,
         voltage_in |-> tm.voltage_in,
         voltage_out |-> tm.voltage_out,
         current_in |-> tm.current_in,
         current_out |-> tm.current_out,
         temperature |-> tm.temperature,
         duty_cycle |-> tm.duty_cycle,
         rssi |-> tm.rssi,
         energy |-> tm.energy,
         online |-> EffectiveOnline(a.online),
         stale |-> FALSE,
         is_temporary |-> IsTemporary(s, panel_config.system, effective_node_id),
         actual_system |-> a.actual_system,
         last_update |-> Some(t),
         position |-> panel_config.position]

\* Variant of LogUnknownSerial that warns on every call.
LogUnknownSerial_EveryCall(s, sn) ==
    [s EXCEPT !.log_warnings = [@ EXCEPT ![sn] = @ + 1],
              !.unknown_serials_logged = @ \cup {sn}]

\* The unknown-serial branch of update_panel: warn once per serial.
LogUnknownSerial(s, sn) ==
    IF sn \in s.unknown_serials_logged THEN s
    ELSE [s EXCEPT !.log_warnings = [@ EXCEPT ![sn] = @ + 1],
                   !.unknown_serials_logged = @ \cup {sn}]

Put(f, k, v) == [x \in DOMAIN f \cup {k} |-> IF x = k THEN v ELSE f[x]]

update_panel(s, a, t) ==
    IF a.sn \notin DOMAIN s.panels_by_sn
    THEN [s |-> LogUnknownSerial(s, a.sn), ret |-> FALSE]
    ELSE LET panel_config == s.panels_by_sn[a.sn]
             label == panel_config.display_label
             pd == UpdatedPanelData(s, panel_config, a, t)
         IN  [s |-> [s EXCEPT
                       !.last_update = Put(@, label, t),
                       !.node_id_to_panel =
                           IF IsNone(pd.node_id) THEN @
                           ELSE Put(@, Val(pd.node_id), label),
                       !.panel_state = Put(@, label, pd)],
              ret |-> TRUE]

\* Variant of IsStale that is already true at an age equal to the threshold.
IsStale_AtThreshold(t_now, t, threshold) == t_now - t >= threshold

\* Whether a panel last updated at time t is stale at time t_now.
IsStale(t_now, t, threshold) == t_now - t > threshold

\* Variant of check_staleness that treats a panel without a last update as
\* older than any threshold.
check_staleness_NeverIsStale(s, threshold, t_now) ==
    [s EXCEPT !.panel_state =
        [l \in DOMAIN @ |->
           IF l \in DOMAIN s.last_update
           THEN [@[l] EXCEPT !.stale = IsStale(t_now, s.last_update[l], threshold)]
           ELSE [@[l] EXCEPT !.stale = TRUE]]]

check_staleness(s, threshold, t_now) ==
    [s EXCEPT !.panel_state =
        [l \in DOMAIN @ |->
           IF l \in DOMAIN s.last_update
           THEN [@[l] EXCEPT !.stale = IsStale(t_now, s.last_update[l], threshold)]
           ELSE @[l]]]

mock_watts == 100

mock_voltage == 45

MockArgs(sn) ==
    UpdateArgs(sn, [NoTelemetry EXCEPT !.watts = Some(mock_watts),
                                       !.voltage_in = Some(mock_voltage)],
               Some(TRUE), None, None, None)

RECURSIVE MockFrom(_, _, _, _)
MockFrom(s, panels, i, t) ==
    IF i > Len(panels) THEN s
    ELSE MockFrom(update_panel(s, MockArgs(panels[i].sn), t).s, panels, i + 1, t)

\* apply_mock_data: one update_panel call per topology entry, in order.
apply_mock_data(s, t) ==
    IF IsNone(s.panel_mapping) THEN [s |-> s, err |-> "AttributeError"]
    ELSE [s |-> MockFrom(s, Val(s.panel_mapping), 1, t), err |-> "none"]

mtime_tolerance == 2

\* Variant of the mtime test that already fires at a difference equal to the
\* tolerance.
MtimeChanged_AtLeast(current_mtime, loaded_mtime) ==
    current_mtime >= loaded_mtime + mtime_tolerance

\* The mtime test of check_and_reload_config.
MtimeChanged(current_mtime, loaded_mtime) ==
    current_mtime > loaded_mtime + mtime_tolerance

\* check_and_reload_config; loaded tells whether load_config completed and
\* mocked whether apply_mock_data ran; ret is meaningful when err = "none".
check_and_reload_config(s, yf, jf, cfg, t) ==
    LET config_file == IF s.using_yaml THEN yf ELSE jf
        ld == load_config(s, yf, jf)
        idle == [s |-> s, ret |-> FALSE, err |-> "none",
                 loaded |-> FALSE, mocked |-> FALSE]
        failed == [s |-> ld.s, ret |-> FALSE, err |-> ld.err,
                   loaded |-> FALSE, mocked |-> FALSE]
    IN  IF ~config_file.exists
        THEN IF yf.exists /\ ~s.using_yaml
             THEN IF ld.err # "none" THEN failed
                  ELSE [s |-> ld.s, ret |-> TRUE, err |-> "none",
                        loaded |-> TRUE, mocked |-> FALSE]
             ELSE idle
        ELSE IF MtimeChanged(config_file.mtime, s.config_mtime)
        THEN IF ld.err # "none" THEN failed
             ELSE IF cfg.use_mock_data
             THEN [s |-> apply_mock_data(ld.s, t).s, ret |-> TRUE,
                   err |-> "none", loaded |-> TRUE, mocked |-> TRUE]
             ELSE [s |-> ld.s, ret |-> TRUE, err |-> "none",
                   loaded |-> TRUE, mocked |-> FALSE]
        ELSE idle

\* Variant of get_all_panels that serves the store without polling the files.
get_all_panels_NoReload(s, yf, jf, cfg, t) ==
    [s |-> check_staleness(s, cfg.staleness_threshold_seconds, t),
     ret |-> FALSE, err |-> "none", loaded |-> FALSE, mocked |-> FALSE]

\* get_all_panels: reload if changed, recompute staleness, return the values;
\* an error of the reload leaves the call before the staleness pass.
get_all_panels(s, yf, jf, cfg, t) ==
    LET r == check_and_reload_config(s, yf, jf, cfg, t)
    IN  IF r.err # "none" THEN r
        ELSE [r EXCEPT !.s = check_staleness(r.s, cfg.staleness_threshold_seconds, t)]

\* Variant of update_temp_nodes that adds the reported node ids to the set
\* the system already has.
update_temp_nodes_Merge(s, system, node_ids) ==
    LET old == IF system \in DOMAIN s.temp_nodes THEN s.temp_nodes[system]
               ELSE {}
        ids == old \cup Range(node_ids)
    IN  [s EXCEPT
           !.temp_nodes = Put(@, system, ids),
           !.panel_state =
               [l \in DOMAIN @ |->
                  IF /\ @[l].system = system
                     /\ ~IsNone(@[l].node_id)
                     /\ ~IsNone(ParseInt(Val(@[l].node_id)))
                  THEN [@[l] EXCEPT !.is_temporary =
                           Val(ParseInt(Val(s.panel_state[l].node_id))) \in ids]
                  ELSE @[l]]]

\* update_temp_nodes: set(node_ids) becomes the system's temp-node set; the
\* flag of every panel of that system with an integer node id is recomputed.
update_temp_nodes(s, system, node_ids) ==
    LET ids == Range(node_ids)
    IN  [s EXCEPT
           !.temp_nodes = Put(@, system, ids),
           !.panel_state =
               [l \in DOMAIN @ |->
                  IF /\ @[l].system = system
                     /\ ~IsNone(@[l].node_id)
                     /\ ~IsNone(ParseInt(Val(@[l].node_id)))
                  THEN [@[l] EXCEPT !.is_temporary =
                           Val(ParseInt(Val(s.panel_state[l].node_id))) \in ids]
                  ELSE @[l]]]

\* One item of a node_mappings payload: node id (a string) and serial.
Mapping(node_id, serial) == [node_id |-> node_id, serial |-> serial]

\* {v: k for k, v in mappings.items()}: the last node id of a serial wins.
SerialToNodeId(mappings) ==
    [sn \in {mappings[i].serial : i \in DOMAIN mappings} |->
       mappings[CHOOSE i \in DOMAIN mappings :
                  /\ mappings[i].serial = sn
                  /\ \A j \in DOMAIN mappings :
                        mappings[j].serial = sn => j <= i].node_id]

\* Variant of update_node_mappings that assigns the node ids and leaves the
\* flags as they are.
update_node_mappings_KeepFlag(s, system, mappings) ==
    LET serial_to_node_id == SerialToNodeId(mappings)
        matched(pd) == pd.system = system /\ pd.sn \in DOMAIN serial_to_node_id
        node_id(pd) == serial_to_node_id[pd.sn]
    IN  [s EXCEPT
           !.node_mappings = Put(@, system, mappings),
           !.panel_state =
               [l \in DOMAIN @ |->
                  IF ~matched(@[l]) THEN @[l]
                  ELSE [@[l] EXCEPT !.node_id = Some(node_id(s.panel_state[l]))]]]

\* update_node_mappings: the mapping is stored; every panel of the system
\* whose serial has a node id in it gets that node id and, when the id is an
\* integer, a recomputed flag.
update_node_mappings(s, system, mappings) ==
    LET serial_to_node_id == SerialToNodeId(mappings)
        temp_node_ids == IF system \in DOMAIN s.temp_nodes
                         THEN s.temp_nodes[system] ELSE {}
        matched(pd) == pd.system = system /\ pd.sn \in DOMAIN serial_to_node_id
        node_id(pd) == serial_to_node_id[pd.sn]
    IN  [s EXCEPT
           !.node_mappings = Put(@, system, mappings),
           !.panel_state =
               [l \in DOMAIN @ |->
                  IF ~matched(@[l]) THEN @[l]
                  ELSE IF IsNone(ParseInt(node_id(@[l])))
                  THEN [@[l] EXCEPT !.node_id = Some(node_id(s.panel_state[l]))]
                  ELSE [@[l] EXCEPT
                          !.node_id = Some(node_id(s.panel_state[l])),
                          !.is_temporary =
                              Val(ParseInt(node_id(s.panel_state[l])))
                                 \in temp_node_ids]]]


----------------------------------------------------------------------------
(* The store and its environment as a state machine *)

EmptyMap == <<>>

FullPayload == [f \in TelemetryFields |-> Some(1)]

PartialPayload == [NoTelemetry EXCEPT !.watts = Some(2), !.voltage_in = Some(2)]

\* update_panel calls: a full report carrying every argument, and a partial
\* one that leaves out most telemetry, online, node_id and actual_system.
FullCall(sn) ==
    UpdateArgs(sn, FullPayload, Some(FALSE), Some("ts"), Some("1"),
               Some("secondary"))

PartialCall(sn) == UpdateArgs(sn, PartialPayload, None, None, None, None)

UpdateCalls == {FullCall(sn) : sn \in Serials} \cup {PartialCall(sn) : sn \in Serials}

TopologyLabels ==
    IF IsNone(panel_mapping) THEN {} ELSE Labels(Val(panel_mapping))

\* What the last step did: the operation, its arguments and its outcome;
\* warned tells whether it logged an unknown-serial warning, prev_labels are
\* the labels of the topology a load started from.
Did(op, args, ret, err, loaded, mocked) ==
    [op |-> op, args |-> args, ret |-> ret, err |-> err, loaded |-> loaded,
     mocked |-> mocked, warned |-> log_warnings' # log_warnings,
     prev_labels |-> IF loaded THEN TopologyLabels ELSE {}]

Env == [op |-> "env", args |-> None, ret |-> FALSE, err |-> "none",
        loaded |-> FALSE, mocked |-> FALSE, warned |-> FALSE,
        prev_labels |-> {}]

Commit(s) ==
    /\ panel_mapping' = s.panel_mapping
    /\ using_yaml' = s.using_yaml
    /\ panels_by_sn' = s.panels_by_sn
    /\ panel_state' = s.panel_state
    /\ last_update' = s.last_update
    /\ unknown_serials_logged' = s.unknown_serials_logged
    /\ config_mtime' = s.config_mtime
    /\ temp_nodes' = s.temp_nodes
    /\ node_id_to_panel' = s.node_id_to_panel
    /\ node_mappings' = s.node_mappings
    /\ log_warnings' = s.log_warnings

\* The service right after __init__, no file on disk yet.
InitStore ==
    /\ now = 0
    /\ yaml_file = Absent
    /\ json_file = Absent
    /\ panel_mapping = None
    /\ using_yaml = FALSE
    /\ panels_by_sn = EmptyMap
    /\ panel_state = EmptyMap
    /\ last_update = EmptyMap
    /\ unknown_serials_logged = {}
    /\ config_mtime = 0
    /\ temp_nodes = EmptyMap
    /\ node_id_to_panel = EmptyMap
    /\ node_mappings = EmptyMap
    /\ log_warnings = [sn \in Serials |-> 0]
    /\ last = [Env EXCEPT !.op = "init"]

\* One second passes.
Tick(horizon) ==
    /\ now < horizon
    /\ now' = now + 1
    /\ last' = Env
    /\ UNCHANGED <<yaml_file, json_file, settings, storeVars, nonStoreVars>>

\* The operator (or the configuration subsystem) writes the YAML file; a
\* restored or copied file can carry an earlier modification time.
WriteYaml(contents, mtimes) ==
    /\ \E c \in contents, m \in mtimes : yaml_file' = File(c, m)
    /\ last' = Env
    /\ UNCHANGED <<now, json_file, settings, storeVars, nonStoreVars>>

WriteJson(contents, mtimes) ==
    /\ \E c \in contents, m \in mtimes : json_file' = File(c, m)
    /\ last' = Env
    /\ UNCHANGED <<now, yaml_file, settings, storeVars, nonStoreVars>>

RemoveYaml ==
    /\ yaml_file.exists
    /\ yaml_file' = Absent
    /\ last' = Env
    /\ UNCHANGED <<now, json_file, settings, storeVars, nonStoreVars>>

RemoveJson ==
    /\ json_file.exists
    /\ json_file' = Absent
    /\ last' = Env
    /\ UNCHANGED <<now, yaml_file, settings, storeVars, nonStoreVars>>

LoadConfig ==
    LET r == load_config(Self, yaml_file, json_file)
    IN  /\ Commit(r.s)
        /\ last' = Did("load_config", None, FALSE, r.err, r.err = "none", FALSE)
        /\ UNCHANGED <<envVars, nonStoreVars>>

CheckAndReloadConfig ==
    LET r == check_and_reload_config(Self, yaml_file, json_file, settings, now)
    IN  /\ Commit(r.s)
        /\ last' = Did("check_and_reload_config", None, r.ret, r.err,
                       r.loaded, r.mocked)
        /\ UNCHANGED <<envVars, nonStoreVars>>

\* Telemetry callback of the MQTT client, which runs in live mode only.
UpdatePanel(calls) ==
    \E a \in calls :
        LET r == update_panel(Self, a, now)
        IN  /\ ~settings.use_mock_data
            /\ Commit(r.s)
            /\ last' = Did("update_panel", Some(a), r.ret, "none", FALSE, FALSE)
            /\ UNCHANGED <<envVars, nonStoreVars>>

CheckStaleness ==
    /\ Commit(check_staleness(Self, settings.staleness_threshold_seconds, now))
    /\ last' = Did("check_staleness", None, FALSE, "none", FALSE, FALSE)
    /\ UNCHANGED <<envVars, nonStoreVars>>

GetAllPanels ==
    LET r == get_all_panels(Self, yaml_file, json_file, settings, now)
    IN  /\ Commit(r.s)
        /\ last' = Did("get_all_panels", None, r.ret, r.err, r.loaded, r.mocked)
        /\ UNCHANGED <<envVars, nonStoreVars>>

\* Mock refresh, which runs in mock mode only.
ApplyMockData ==
    LET r == apply_mock_data(Self, now)
    IN  /\ settings.use_mock_data
        /\ Commit(r.s)
        /\ last' = Did("apply_mock_data", None, FALSE, r.err, FALSE,
                       r.err = "none")
        /\ UNCHANGED <<envVars, nonStoreVars>>

\* Temp-nodes callback of the MQTT client: the system of the topic and the
\* list of integers of the payload.
UpdateTempNodes(systems, lists) ==
    \E system \in systems, node_ids \in lists :
        /\ ~settings.use_mock_data
        /\ Commit(update_temp_nodes(Self, system, node_ids))
        /\ last' = Did("update_temp_nodes",
                       Some([system |-> system, node_ids |-> node_ids]),
                       FALSE, "none", FALSE, FALSE)
        /\ UNCHANGED <<envVars, nonStoreVars>>

\* Node-mappings callback of the MQTT client.
UpdateNodeMappings(systems, payloads) ==
    \E system \in systems, mappings \in payloads :
        /\ ~settings.use_mock_data
        /\ Commit(update_node_mappings(Self, system, mappings))
        /\ last' = Did("update_node_mappings",
                       Some([system |-> system, mappings |-> mappings]),
                       FALSE, "none", FALSE, FALSE)
        /\ UNCHANGED <<envVars, nonStoreVars>>

----------------------------------------------------------------------------
(* ConnectionManager: batched push delivery (backend/app/websocket_manager.py) *)

WebSockets == {"w1", "w2", "w3"}

\* The tasks that run a pass over active_connections: the batch loop, the
\* heartbeat loop, and each WebSocket endpoint for the initial state it sends
\* right after connecting.
Tasks == {"batch", "heartbeat"} \cup WebSockets

\* Snapshots (lists of panels) handed to the manager; the first one is empty.
Snapshots == {<<>>, <<"p1">>, <<"p1", "p2">>}

\* A broadcast pass: the message, the index of the for loop over
\* active_connections, the failed_connections collected so far; start and
\* written record the registry the pass began with and the successful
\* send_json calls per connection.
IdlePass ==
    [active |-> FALSE, message |-> <<>>, idx |-> 0, failed |-> <<>>,
     start |-> <<>>, written |-> [c \in WebSockets |-> 0]]

\* Index of the first occurrence of a registered connection.
IndexOf(connections, websocket) ==
    CHOOSE i \in DOMAIN connections :
        /\ connections[i] = websocket
        /\ \A j \in DOMAIN connections : connections[j] = websocket => i <= j

\* Variant of disconnect that also drops everything registered after the
\* connection.
disconnect_Truncate(connections, websocket) ==
    IF websocket \notin Range(connections) THEN connections
    ELSE SubSeq(connections, 1, IndexOf(connections, websocket) - 1)

\* disconnect: list.remove takes out the first occurrence of the connection
\* if it is registered; nothing happens otherwise.
disconnect(connections, websocket) ==
    IF websocket \notin Range(connections) THEN connections
    ELSE LET i == IndexOf(connections, websocket)
         IN  SubSeq(connections, 1, i - 1)
                \o SubSeq(connections, i + 1, Len(connections))

RECURSIVE DisconnectAll(_, _, _)
DisconnectAll(connections, failed, i) ==
    IF i > Len(failed) THEN connections
    ELSE DisconnectAll(disconnect(connections, failed[i]), failed, i + 1)

\* broadcast up to its first send: nothing happens without connections.
BeginBroadcast(connections, panels) ==
    IF connections = <<>> THEN IdlePass
    ELSE [IdlePass EXCEPT !.active = TRUE, !.message = panels, !.idx = 1,
                          !.start = connections]

\* One iteration of the for loop of broadcast; send_json fails on a
\* connection whose peer is gone.
SendJson(pass, connections, gone) ==
    LET connection == connections[pass.idx]
    IN  IF connection \in gone
        THEN [pass EXCEPT !.idx = @ + 1, !.failed = Append(@, connection)]
        ELSE [pass EXCEPT !.idx = @ + 1, !.written[connection] = @ + 1]

\* Variant of queue_update that keeps a snapshot that is already pending.
queue_update_KeepPending(data, pending, panels) ==
    [panel_data |-> IF pending THEN data ELSE panels, pending_update |-> TRUE]

\* queue_update: the latest snapshot replaces whatever was queued.
queue_update(data, pending, panels) ==
    [panel_data |-> panels, pending_update |-> TRUE]

\* The test of _batch_loop under the lock.
BatchDue(data, pending) == pending /\ data # <<>>

\* The registry and the batching state right after __init__.
InitConnections ==
    /\ active_connections = <<>>
    /\ pending_update = FALSE
    /\ panel_data = <<>>
    /\ passes = [t \in Tasks |-> IdlePass]
    /\ endpoint = [c \in WebSockets |-> "new"]
    /\ broken = {}
    /\ queued = <<>>
    /\ cycle = [queued |-> <<>>, pending |-> FALSE, sent |-> None]
    /\ stalled = {}
    /\ screen = [c \in WebSockets |-> None]
    /\ disconnects = <<>>

\* No periodic task exists after __init__.
InitTasks ==
    /\ batch_task = None
    /\ heartbeat_task = None
    /\ loops = [batch |-> 0, heartbeat |-> 0]
    /\ stopping = "idle"
    /\ starts = 0

\* The periodic tasks after the startup part of lifespan.
StartedTasks ==
    /\ batch_task = Some("batch")
    /\ heartbeat_task = Some("heartbeat")
    /\ loops = [batch |-> 1, heartbeat |-> 1]
    /\ stopping = "idle"
    /\ starts = 1

InitManager == InitConnections /\ InitTasks

\* Variant of the lock that never makes queue_update wait.
Locked_Never == FALSE

\* The batch loop holds the lock from its test to the end of its broadcast.
Locked == passes["batch"].active

\* handle_mqtt_message queues a snapshot; the call waits while the batch
\* loop holds the lock.
QueueUpdate(snapshots, limit) ==
    /\ ~Locked
    /\ Len(queued) < limit
    /\ \E panels \in snapshots :
          LET r == queue_update(panel_data, pending_update, panels)
          IN  /\ panel_data' = r.panel_data
              /\ pending_update' = r.pending_update
              /\ queued' = Append(queued, panels)
    /\ UNCHANGED <<active_connections, passes, endpoint, broken, cycle,
                       taskVars, stalled, screen>>
    /\ UNCHANGED <<outsideManager, disconnects>>

\* _batch_loop wakes up from its sleep.
BatchCycle ==
    /\ loops.batch > 0
    /\ ~Locked
    /\ cycle' = [queued |-> queued, pending |-> pending_update,
                 sent |-> IF BatchDue(panel_data, pending_update)
                          THEN Some(panel_data) ELSE None]
    /\ queued' = <<>>
    /\ IF BatchDue(panel_data, pending_update)
       THEN /\ passes' = [passes EXCEPT
                            !["batch"] = BeginBroadcast(active_connections,
                                                        panel_data)]
            /\ pending_update' = (pending_update /\ active_connections # <<>>)
       ELSE UNCHANGED <<passes, pending_update>>
    /\ UNCHANGED <<active_connections, panel_data, endpoint, broken,
                       taskVars, stalled, screen>>
    /\ UNCHANGED <<outsideManager, disconnects>>

\* One send_json of a running pass of task t; the write to a stalled
\* connection never completes.
SendStep(t) ==
    /\ passes[t].active
    /\ passes[t].idx <= Len(active_connections)
    /\ active_connections[passes[t].idx] \notin stalled
    /\ passes' = [passes EXCEPT
                    ![t] = SendJson(@, active_connections, broken)]
    /\ UNCHANGED <<active_connections, pending_update, panel_data,
                   endpoint, broken, queued, cycle, taskVars, stalled>>
    /\ UNCHANGED <<outsideManager, disconnects>>

\* One send_json of a running pass.
BroadcastSend(tasks) ==
    \E t \in tasks : SendStep(t) /\ UNCHANGED screen

\* One send_json of a running pass, with the viewer's side observed: a
\* panels message that is written becomes what the viewer shows.
ViewerSend(tasks) ==
    \E t \in tasks :
        /\ SendStep(t)
        /\ LET connection == active_connections[passes[t].idx]
           IN  screen' = IF connection \in broken \/ t = "heartbeat"
                         THEN screen
                         ELSE [screen EXCEPT
                                 ![connection] = Some(passes[t].message)]

\* The for loop of a broadcast pass is exhausted: the failed connections are
\* removed; the batch loop then clears its flag and releases the lock, an
\* endpoint goes on to receive.
BroadcastEnd(tasks) ==
    \E t \in tasks :
        /\ passes[t].active
        /\ passes[t].idx > Len(active_connections)
        /\ active_connections' =
              DisconnectAll(active_connections, passes[t].failed, 1)
        /\ passes' = [passes EXCEPT ![t] = IdlePass]
        /\ pending_update' = (pending_update /\ t # "batch")
        /\ endpoint' = IF t \in WebSockets
                       THEN [endpoint EXCEPT ![t] = "receiving"]
                       ELSE endpoint
        /\ UNCHANGED <<panel_data, broken, queued, cycle,
                       taskVars, stalled, screen>>
        /\ UNCHANGED <<outsideManager, disconnects>>

\* websocket_endpoint: connect, then broadcast the initial state.
Connect(websockets, snapshots) ==
    \E c \in websockets, panels \in snapshots :
        /\ endpoint[c] = "new"
        /\ active_connections' = Append(active_connections, c)
        /\ passes' = [passes EXCEPT
                        ![c] = BeginBroadcast(active_connections', panels)]
        /\ endpoint' = [endpoint EXCEPT ![c] = "broadcasting"]
        /\ UNCHANGED <<pending_update, panel_data, broken, queued, cycle,
                       taskVars, stalled, screen>>
        /\ UNCHANGED <<outsideManager, disconnects>>

\* The peer of a connection goes away.
PeerGone(websockets) ==
    \E c \in websockets :
        /\ endpoint[c] \in {"broadcasting", "receiving"}
        /\ c \notin broken
        /\ broken' = broken \cup {c}
        /\ UNCHANGED <<active_connections, pending_update, panel_data,
                       passes, endpoint, queued, cycle,
                       taskVars, stalled, screen>>
        /\ UNCHANGED <<outsideManager, disconnects>>

\* websocket_endpoint: receive_text raises WebSocketDisconnect.
Disconnect(websockets) ==
    \E c \in websockets :
        /\ endpoint[c] = "receiving"
        /\ c \in broken
        /\ active_connections' = disconnect(active_connections, c)
        /\ endpoint' = [endpoint EXCEPT ![c] = "closed"]
        /\ UNCHANGED <<pending_update, panel_data, passes, broken, queued,
                       cycle,
                       taskVars, stalled, screen>>
        /\ UNCHANGED <<outsideManager, disconnects>>


\* The disconnect method called for a connection, registered or not.
DisconnectCall(websockets, limit) ==
    \E c \in websockets :
        /\ Len(disconnects) < limit
        /\ active_connections' = disconnect(active_connections, c)
        /\ disconnects' = Append(disconnects, c)
        /\ UNCHANGED <<pending_update, panel_data, passes, endpoint, broken,
                       queued, cycle, taskVars, stalled, screen>>
        /\ UNCHANGED outsideManager

\* The peer of a connection stops reading: writes to it no longer complete.
Stall(websockets) ==
    \E c \in websockets :
        /\ endpoint[c] \in {"broadcasting", "receiving"}
        /\ c \notin broken /\ c \notin stalled
        /\ stalled' = stalled \cup {c}
        /\ UNCHANGED <<active_connections, pending_update, panel_data,
                       passes, endpoint, broken, queued, cycle, taskVars,
                       screen>>
        /\ UNCHANGED <<outsideManager, disconnects>>

\* The heartbeat pass up to its first send: the loop over active_connections
\* with the ping message; with no connection the pass is over at once.
BeginHeartbeat(connections) ==
    IF connections = <<>> THEN IdlePass
    ELSE [IdlePass EXCEPT !.active = TRUE, !.message = <<"ping">>, !.idx = 1,
                          !.start = connections]

\* _heartbeat_loop wakes up from its sleep.
HeartbeatCycle ==
    /\ loops.heartbeat > 0
    /\ ~passes["heartbeat"].active
    /\ active_connections # <<>>
    /\ passes' = [passes EXCEPT
                    !["heartbeat"] = BeginHeartbeat(active_connections)]
    /\ UNCHANGED <<active_connections, pending_update, panel_data, endpoint,
                   broken, queued, cycle, taskVars, stalled, screen>>
    /\ UNCHANGED <<outsideManager, disconnects>>

\* Variant of start_background_tasks that creates both tasks on every call.
start_background_tasks_Always(batch, heartbeat, live) ==
    [batch_task |-> Some("batch"),
     heartbeat_task |-> Some("heartbeat"),
     loops |-> [batch |-> live.batch + 1,
                heartbeat |-> live.heartbeat + 1]]

\* start_background_tasks: a task is created only where the handle is None.
start_background_tasks(batch, heartbeat, live) ==
    [batch_task |-> IF IsNone(batch) THEN Some("batch") ELSE batch,
     heartbeat_task |-> IF IsNone(heartbeat) THEN Some("heartbeat")
                        ELSE heartbeat,
     loops |-> [batch |-> IF IsNone(batch) THEN live.batch + 1
                          ELSE live.batch,
                heartbeat |-> IF IsNone(heartbeat) THEN live.heartbeat + 1
                              ELSE live.heartbeat]]

\* lifespan (or any caller) starts the periodic tasks; nothing starts them
\* once the shutdown has begun.
StartBackgroundTasks(limit) ==
    /\ stopping = "idle"
    /\ starts < limit
    /\ LET r == start_background_tasks(batch_task, heartbeat_task, loops)
       IN  /\ batch_task' = r.batch_task
           /\ heartbeat_task' = r.heartbeat_task
           /\ loops' = r.loops
    /\ starts' = starts + 1
    /\ UNCHANGED <<active_connections, pending_update, panel_data, passes,
                   endpoint, broken, queued, cycle, stopping, stalled,
                   screen>>
    /\ UNCHANGED <<outsideManager, disconnects>>

\* task.cancel() followed by await task: CancelledError is raised at the
\* await the loop is suspended at (its sleep, the lock, or a send_json, which
\* catches Exception only), so every instance of the loop ends where it is
\* and the batch loop releases the lock.
CancelLoop(t) ==
    /\ loops' = [loops EXCEPT ![t] = 0]
    /\ passes' = [passes EXCEPT ![t] = IdlePass]

\* stop_background_tasks up to its first await.
StopBackgroundTasks ==
    /\ stopping = "idle"
    /\ starts > 0
    /\ IF ~IsNone(batch_task)
       THEN CancelLoop("batch") /\ stopping' = "awaiting_batch"
       ELSE IF ~IsNone(heartbeat_task)
       THEN CancelLoop("heartbeat") /\ stopping' = "awaiting_heartbeat"
       ELSE stopping' = "returned" /\ UNCHANGED <<loops, passes>>
    /\ UNCHANGED <<active_connections, pending_update, panel_data, endpoint,
                   broken, queued, cycle, batch_task, heartbeat_task, starts,
                   stalled, screen>>
    /\ UNCHANGED <<outsideManager, disconnects>>

\* stop_background_tasks resumes after the batch task has ended.
BatchTaskAwaited ==
    /\ stopping = "awaiting_batch"
    /\ batch_task' = None
    /\ IF ~IsNone(heartbeat_task)
       THEN CancelLoop("heartbeat") /\ stopping' = "awaiting_heartbeat"
       ELSE stopping' = "returned" /\ UNCHANGED <<loops, passes>>
    /\ UNCHANGED <<active_connections, pending_update, panel_data, endpoint,
                   broken, queued, cycle, heartbeat_task, starts, stalled,
                   screen>>
    /\ UNCHANGED <<outsideManager, disconnects>>

\* stop_background_tasks resumes after the heartbeat task has ended, and
\* returns.
HeartbeatTaskAwaited ==
    /\ stopping = "awaiting_heartbeat"
    /\ heartbeat_task' = None
    /\ stopping' = "returned"
    /\ UNCHANGED <<active_connections, pending_update, panel_data, passes,
                   endpoint, broken, queued, cycle, batch_task, loops, starts,
                   stalled, screen>>
    /\ UNCHANGED <<outsideManager, disconnects>>

----------------------------------------------------------------------------
(* MQTTClient: connect loop, backoff, message routing                      *)
(* (dashboard/backend/app/mqtt_client.py)                                  *)

initial_retry_delay == 1

max_retry_delay == 60

\* Variant of min that returns its first argument.
Min_First(a, b) == IF a <= a THEN a ELSE b

\* Python's min of two numbers.
Min(a, b) == IF a <= b THEN a ELSE b

\* The topic classes in the order _connect_loop subscribes to them.
TopicClasses == <<"state", "temp_nodes", "node_mappings">>

\* Decoded JSON values that occur as elements of a temp_nodes list: integers,
\* strings, floats (n + 0.5) and null.
JInt(n) == [t |-> "int", n |-> n, s |-> ""]

JStr(str) == [t |-> "str", n |-> 0, s |-> str]

JFloat(n) == [t |-> "float", n |-> n, s |-> ""]

JNull == [t |-> "null", n |-> 0, s |-> ""]

\* Python's int(): an integer is itself, a float is truncated, a string is
\* parsed (ValueError for a non-numeric one), None is a TypeError.
PyInt(v) ==
    CASE v.t = "int" -> Some(v.n)
      [] v.t = "float" -> Some(v.n)
      [] v.t = "str" -> ParseInt(v.s)
      [] OTHER -> None

\* A payload: bytes that do not decode as JSON ("garbage"), or a decoded
\* list (items), object (nodes are the records under "nodes") or number.
Payload(kind, items, nodes) == [kind |-> kind, items |-> items, nodes |-> nodes]

\* A record under "nodes": a JSON object with or without node_serial, or
\* something that is not an object.
Node(is_dict, node_serial) == [is_dict |-> is_dict, node_serial |-> node_serial]

Garbage == Payload("garbage", <<>>, <<>>)

Message(topic, payload) == [topic |-> topic, payload |-> payload]

Messages ==
    {Message("temp_nodes", Payload("list", items, <<>>)) :
        items \in {<<JInt(1), JInt(2)>>, <<JStr("2")>>, <<JFloat(1)>>,
                   <<JInt(1), JStr("x")>>, <<JNull>>, <<>>}}
    \cup {Message("temp_nodes", Payload("dict", <<>>, <<>>)),
          Message("temp_nodes", Garbage),
          Message("node_mappings", Payload("dict", <<>>, <<>>)),
          Message("node_mappings", Payload("list", <<JInt(1)>>, <<>>)),
          Message("node_mappings", Garbage),
          Message("state", Payload("dict", <<>>,
                                   <<Node(TRUE, "s1"), Node(TRUE, "s2")>>)),
          Message("state", Payload("dict", <<>>,
                                   <<Node(FALSE, ""), Node(TRUE, ""),
                                     Node(TRUE, "s1")>>)),
          Message("state", Payload("number", <<>>, <<>>)),
          Message("state", Garbage),
          Message("other", Payload("dict", <<>>, <<>>))}

\* One callback invocation.
Call(callback, node_serial, node_ids) ==
    [callback |-> callback, node_serial |-> node_serial, node_ids |-> node_ids]

\* The loop of _process_message from record i on; raises tells whether the
\* callback raises when invoked, which ends the loop.
RECURSIVE ProcessNodes(_, _, _)
ProcessNodes(nodes, i, raises) ==
    IF i > Len(nodes) THEN [calls |-> <<>>, raised |-> FALSE]
    ELSE IF ~nodes[i].is_dict \/ nodes[i].node_serial = ""
    THEN ProcessNodes(nodes, i + 1, raises)
    ELSE LET call == Call("on_message", nodes[i].node_serial, <<>>)
             rest == ProcessNodes(nodes, i + 1, raises)
         IN  IF raises THEN [calls |-> <<call>>, raised |-> TRUE]
             ELSE [calls |-> <<call>> \o rest.calls, raised |-> rest.raised]

\* _process_message: payload.get raises on a payload that is not an object.
_process_message(payload, raises) ==
    IF payload.kind # "dict" THEN [calls |-> <<>>, raised |-> TRUE]
    ELSE ProcessNodes(payload.nodes, 1, raises)

\* _process_temp_nodes: the ValueError/TypeError of int() is caught there.
_process_temp_nodes(payload, raises) ==
    IF payload.kind # "list" THEN [calls |-> <<>>, raised |-> FALSE]
    ELSE IF \E i \in DOMAIN payload.items : IsNone(PyInt(payload.items[i]))
    THEN [calls |-> <<>>, raised |-> FALSE]
    ELSE [calls |-> <<Call("on_temp_nodes", "",
                           [i \in DOMAIN payload.items |->
                              Val(PyInt(payload.items[i]))])>>,
          raised |-> raises]

_process_node_mappings(payload, raises) ==
    IF payload.kind # "dict" THEN [calls |-> <<>>, raised |-> FALSE]
    ELSE [calls |-> <<Call("on_node_mappings", "", <<>>)>>, raised |-> raises]

\* The body of the message loop: decode, route by topic suffix; raised tells
\* whether one of the two except clauses of the loop logged an error.
ProcessOne(message, raises) ==
    IF message.payload.kind = "garbage" THEN [calls |-> <<>>, raised |-> TRUE]
    ELSE CASE message.topic = "temp_nodes" ->
                 _process_temp_nodes(message.payload, raises)
           [] message.topic = "node_mappings" ->
                 _process_node_mappings(message.payload, raises)
           [] message.topic = "state" ->
                 _process_message(message.payload, raises)
           [] OTHER -> [calls |-> <<>>, raised |-> FALSE]

\* Routing in detail: a topic is the sequence of its segments (what
\* split("/") gives), a record under "nodes" a JSON object given as a function
\* from its keys to its values, all values written as strings.
Null == "null"

\* str.endswith("/" + suffix) on the topic.
TopicEndsWith(topic, suffix) == Len(topic) >= 2 /\ topic[Len(topic)] = suffix

\* parts[1] if len(parts) >= 2.
SecondSegment(topic) == IF Len(topic) >= 2 THEN Some(topic[2]) ELSE None

\* dict.get(key): None for a missing key and for a null value.
Get(node_data, key) ==
    IF key \in DOMAIN node_data /\ node_data[key] # Null
    THEN Some(node_data[key]) ELSE None

\* dict.get(key, default): the default stands in for a missing key only.
GetDefault(node_data, key, default) ==
    IF key \in DOMAIN node_data THEN Get(node_data, key) ELSE Some(default)

\* The keys of processed_data that are copied with a plain get.
CopiedKeys ==
    {"node_id", "node_name", "power", "voltage_in", "voltage_out",
     "current_in", "current_out", "temperature", "duty_cycle", "rssi",
     "energy", "timestamp"}

\* "not node_serial": the key is missing, or its value is null or empty.
NoSerial(node_data) ==
    IsNone(Get(node_data, "node_serial")) \/ node_data["node_serial"] = ""

\* processed_data of _process_message.
ProcessedData(node_data, source_system) ==
    [key \in CopiedKeys \cup {"node_serial", "state_online", "source_system"} |->
        CASE key = "node_serial" -> Some(node_data["node_serial"])
          [] key = "state_online" ->
                GetDefault(node_data, "state_online", "online")
          [] key = "source_system" -> source_system
          [] OTHER -> Get(node_data, key)]

\* One callback invocation with its arguments.
Invocation(callback, system, data) ==
    [callback |-> callback, system |-> system, data |-> data]

\* A value under "nodes" that is not an object.
NotAnObject == [not_an_object |-> "1"]

\* The loop of _process_message from record i on; a callback that raises
\* ends the loop.
RECURSIVE ForwardRecords(_, _, _, _)
ForwardRecords(nodes, i, source_system, raises) ==
    IF i > Len(nodes) THEN <<>>
    ELSE IF nodes[i] = NotAnObject
    THEN ForwardRecords(nodes, i + 1, source_system, raises)
    ELSE IF NoSerial(nodes[i])
    THEN ForwardRecords(nodes, i + 1, source_system, raises)
    ELSE LET call == Invocation("on_message", source_system,
                                ProcessedData(nodes[i], source_system))
         IN  IF raises THEN <<call>>
             ELSE <<call>> \o ForwardRecords(nodes, i + 1, source_system, raises)

\* Variant of the routing that also hands a temp_nodes list to the
\* telemetry callback.
RouteMessage_Both(message, raises) ==
    IF message.payload.kind = "garbage" THEN <<>>
    ELSE IF TopicEndsWith(message.topic, "temp_nodes")
    THEN IF message.payload.kind # "list"
            \/ \E i \in DOMAIN message.payload.items :
                  IsNone(PyInt(message.payload.items[i]))
         THEN <<>>
         ELSE <<Invocation("on_temp_nodes", SecondSegment(message.topic),
                           [i \in DOMAIN message.payload.items |->
                              Val(PyInt(message.payload.items[i]))]),
                Invocation("on_message", SecondSegment(message.topic), <<>>)>>
    ELSE IF TopicEndsWith(message.topic, "node_mappings")
    THEN IF message.payload.kind # "dict" THEN <<>>
         ELSE <<Invocation("on_node_mappings", SecondSegment(message.topic),
                           message.payload.nodes)>>
    ELSE IF TopicEndsWith(message.topic, "state")
    THEN IF message.payload.kind # "dict" THEN <<>>
         ELSE ForwardRecords(message.payload.nodes, 1,
                             SecondSegment(message.topic), raises)
    ELSE <<>>

\* The body of the message loop with the arguments of the callbacks: decode,
\* route by topic suffix, process.
RouteMessage(message, raises) ==
    IF message.payload.kind = "garbage" THEN <<>>
    ELSE IF TopicEndsWith(message.topic, "temp_nodes")
    THEN IF message.payload.kind # "list"
            \/ \E i \in DOMAIN message.payload.items :
                  IsNone(PyInt(message.payload.items[i]))
         THEN <<>>
         ELSE <<Invocation("on_temp_nodes", SecondSegment(message.topic),
                           [i \in DOMAIN message.payload.items |->
                              Val(PyInt(message.payload.items[i]))])>>
    ELSE IF TopicEndsWith(message.topic, "node_mappings")
    THEN IF message.payload.kind # "dict" THEN <<>>
         ELSE <<Invocation("on_node_mappings", SecondSegment(message.topic),
                           message.payload.nodes)>>
    ELSE IF TopicEndsWith(message.topic, "state")
    THEN IF message.payload.kind # "dict" THEN <<>>
         ELSE ForwardRecords(message.payload.nodes, 1,
                             SecondSegment(message.topic), raises)
    ELSE <<>>

\* Topics as they arrive under the three subscriptions, and one that matches
\* none of the suffixes.
Topics ==
    {<<"taptap", sys, kind>> :
        sys \in Systems, kind \in {"state", "temp_nodes", "node_mappings"}}
    \cup {<<"taptap", "primary", "status">>}

\* Records under "nodes": complete, with a serial only, with an explicit
\* null, without a serial, with an empty serial, and a value that is not an
\* object.
Records ==
    {[node_serial |-> "s1", node_id |-> "1", power |-> "0",
      state_online |-> "offline"],
     [node_serial |-> "s2"],
     [node_serial |-> "s1", power |-> Null, state_online |-> Null],
     [power |-> "5"],
     [node_serial |-> "", power |-> "5"],
     NotAnObject}

RecordLists ==
    {<<>>} \cup {<<r>> : r \in Records}
           \cup {<<[node_serial |-> "s2"], r>> : r \in Records}
           \cup {<<[power |-> "5"], r>> : r \in Records}

\* Payloads: objects with records under "nodes", lists, a number and bytes
\* that do not decode.
RoutedPayloads ==
    {Payload("dict", <<>>, nodes) : nodes \in RecordLists}
    \cup {Payload("list", items, <<>>) :
             items \in {<<JInt(1), JInt(2)>>, <<JStr("x")>>, <<>>}}
    \cup {Payload("number", <<>>, <<>>), Garbage}

\* Variant of the backoff step that leaves the delay as it is.
NextDelay_NoBackoff(delay) == Min(delay, max_retry_delay)

\* The backoff step after a reconnect sleep.
NextDelay(delay) == Min(delay * 2, max_retry_delay)

\* Variant in which the message loop is entered after the first subscription.
LoopEntered_AfterFirst(subscribed) == subscribed # {}

\* The message loop is entered after the three subscribe calls.
LoopEntered(subscribed) == subscribed = Range(TopicClasses)

\* Variant of stop that does not await the cancelled task.
TaskAwaited_NoWait(ph) == ph = ph

\* stop awaits the cancelled task: it returns when _connect_loop has ended.
TaskAwaited(ph) == ph = "stopped"

InitClient ==
    /\ running = FALSE
    /\ retry_delay = initial_retry_delay
    /\ phase = "idle"
    /\ subscriptions = {}
    /\ cancelling = FALSE
    /\ stop_returned = FALSE
    /\ wait = 0
    /\ run = [since_subscribed |-> 0, since_connected |-> 0]
    /\ inflight = None
    /\ dispatched = <<>>

\* start: the task enters _connect_loop and opens its first connection.
StartClient ==
    /\ phase = "idle"
    /\ running' = TRUE
    /\ phase' = "connecting"
    /\ UNCHANGED <<retry_delay, subscriptions, cancelling, stop_returned,
                   wait, run, inflight, dispatched>>
    /\ UNCHANGED outsideClient

\* The connection is established; the retry delay is reset.
ConnectOk ==
    /\ phase = "connecting" /\ ~cancelling
    /\ retry_delay' = initial_retry_delay
    /\ phase' = "subscribing"
    /\ subscriptions' = {}
    /\ run' = [run EXCEPT !.since_connected = 0]
    /\ UNCHANGED <<running, cancelling, stop_returned, wait, inflight,
                   dispatched>>
    /\ UNCHANGED outsideClient

\* One subscribe call returns; after the third the message loop begins.
Subscribe ==
    /\ phase = "subscribing" /\ ~cancelling
    /\ subscriptions' =
          subscriptions \cup {TopicClasses[Cardinality(subscriptions) + 1]}
    /\ phase' = IF LoopEntered(subscriptions') THEN "subscribed"
                ELSE "subscribing"
    /\ run' = IF LoopEntered(subscriptions')
              THEN [run EXCEPT !.since_subscribed = 0] ELSE run
    /\ UNCHANGED <<running, retry_delay, cancelling, stop_returned, wait,
                   inflight, dispatched>>
    /\ UNCHANGED outsideClient

\* except Exception of _connect_loop: the connection is gone; while running
\* the loop sleeps for the current retry delay.
OnError ==
    /\ ~cancelling
    /\ run.since_subscribed < MaxErrors
    /\ subscriptions' = {}
    /\ run' = [since_subscribed |-> run.since_subscribed + 1,
               since_connected |-> run.since_connected + 1]
    /\ IF running
       THEN phase' = "sleeping" /\ wait' = retry_delay
       ELSE phase' = "stopped" /\ wait' = wait
    /\ UNCHANGED <<running, retry_delay, cancelling, stop_returned, inflight,
                   dispatched>>
    /\ UNCHANGED outsideClient

\* The broker cannot be reached.
ConnectFail == phase = "connecting" /\ OnError

\* A subscribe call fails.
SubscribeFail == phase = "subscribing" /\ OnError

\* The connection drops while the loop waits for the next message.
ConnectionLost == phase = "subscribed" /\ OnError

\* The reconnect sleep ends: the delay is doubled and the loop connects again.
SleepDone ==
    /\ phase = "sleeping" /\ ~cancelling
    /\ retry_delay' = NextDelay(retry_delay)
    /\ wait' = 0
    /\ phase' = IF running THEN "connecting" ELSE "stopped"
    /\ UNCHANGED <<running, subscriptions, cancelling, stop_returned, run,
                   inflight, dispatched>>
    /\ UNCHANGED outsideClient

\* A message arrives and is decoded, routed and handed to its callbacks.
Deliver ==
    /\ phase = "subscribed" /\ ~cancelling
    /\ \E message \in Messages, raises \in BOOLEAN :
          /\ inflight' = Some([message |-> message, raises |-> raises])
          /\ dispatched' = ProcessOne(message, raises).calls
    /\ phase' = "processing"
    /\ UNCHANGED <<running, retry_delay, subscriptions, cancelling,
                   stop_returned, wait, run>>
    /\ UNCHANGED outsideClient

\* A message arrives on the established connection and is decoded, routed
\* and handed to its callbacks; the arguments of the callbacks are kept.
Route ==
    /\ phase = "subscribed" /\ ~cancelling
    /\ \E topic \in Topics, payload \in RoutedPayloads, raises \in BOOLEAN :
          /\ inflight' = Some([message |-> Message(topic, payload),
                               raises |-> raises])
          /\ dispatched' = RouteMessage(Message(topic, payload), raises)
    /\ phase' = "processing"
    /\ UNCHANGED <<running, retry_delay, subscriptions, cancelling,
                   stop_returned, wait, run>>
    /\ UNCHANGED outsideClient

\* The processing of the message is over (its errors logged); the loop waits
\* for the next message.
Processed ==
    /\ phase = "processing" /\ ~cancelling
    /\ phase' = "subscribed"
    /\ inflight' = None
    /\ dispatched' = <<>>
    /\ UNCHANGED <<running, retry_delay, subscriptions, cancelling,
                   stop_returned, wait, run>>
    /\ UNCHANGED outsideClient

\* stop up to its await: _running is cleared and the task is cancelled.
Stop ==
    /\ phase \notin {"idle", "stopped"} /\ ~cancelling /\ ~stop_returned
    /\ running' = FALSE
    /\ cancelling' = TRUE
    /\ UNCHANGED <<retry_delay, phase, subscriptions, stop_returned, wait,
                   run, inflight, dispatched>>
    /\ UNCHANGED outsideClient

\* CancelledError is raised where the task is suspended: in the sleep it
\* leaves _connect_loop at once; elsewhere it first leaves the async with
\* block, which closes the connection.
Cancelled ==
    /\ cancelling
    /\ phase \in {"connecting", "subscribing", "subscribed", "processing",
                  "sleeping"}
    /\ phase' = IF phase = "sleeping" THEN "stopped" ELSE "closing"
    /\ subscriptions' = {}
    /\ inflight' = None
    /\ dispatched' = <<>>
    /\ UNCHANGED <<running, retry_delay, cancelling, stop_returned, wait, run>>
    /\ UNCHANGED outsideClient

\* except asyncio.CancelledError: break.
Unwound ==
    /\ phase = "closing"
    /\ phase' = "stopped"
    /\ UNCHANGED <<running, retry_delay, subscriptions, cancelling,
                   stop_returned, wait, run, inflight, dispatched>>
    /\ UNCHANGED outsideClient

\* stop returns.
StopReturn ==
    /\ cancelling
    /\ TaskAwaited(phase)
    /\ stop_returned' = TRUE
    /\ cancelling' = FALSE
    /\ UNCHANGED <<running, retry_delay, phase, subscriptions, wait, run,
                   inflight, dispatched>>
    /\ UNCHANGED outsideClient

----------------------------------------------------------------------------
(* Discovery: label parsing and matching                                   *)
(* (dashboard/backend/app/config_models.py)                                *)

\* Strings are sequences of characters.
LetterChars == {"A", "B", "a", "b"}

DigitChars == {"0", "1", "2", "3"}

OtherChars == {"-", " ", "\n"}

Chars == LetterChars \cup DigitChars \cup OtherChars

\* str.upper on one character.
Upper(c) ==
    CASE c = "a" -> "A"
      [] c = "b" -> "B"
      [] OTHER -> c

DigitValue(c) ==
    CASE c = "0" -> 0
      [] c = "1" -> 1
      [] c = "2" -> 2
      [] OTHER -> 3

\* int() of a string of digits.
RECURSIVE IntOfDigits(_)
IntOfDigits(digits) ==
    IF digits = <<>> THEN 0
    ELSE 10 * IntOfDigits(SubSeq(digits, 1, Len(digits) - 1))
            + DigitValue(digits[Len(digits)])

\* Where the $ of the pattern can match: at the end of the string, and just
\* before a newline that is its last character.
DollarPositions(str) ==
    {Len(str)} \cup
    (IF str # <<>> /\ str[Len(str)] = "\n" THEN {Len(str) - 1} ELSE {})

\* re.match(r'^([A-Za-z]+)(\d+)$', label): the splits k (letters up to k,
\* digits up to e, $ at e) under which the pattern matches.
PatternMatches(str) ==
    {<<k, e>> \in (1..Len(str)) \X DollarPositions(str) :
        /\ k < e
        /\ \A i \in 1..k : str[i] \in LetterChars
        /\ \A i \in (k + 1)..e : str[i] \in DigitChars}

\* parse_tigo_label: None, or the uppercased letters and the number.
parse_tigo_label(str) ==
    IF str = <<>> \/ PatternMatches(str) = {} THEN None
    ELSE LET m == CHOOSE m \in PatternMatches(str) : TRUE
         IN  Some([string |-> [i \in 1..m[1] |-> Upper(str[i])],
                   position |-> IntOfDigits(SubSeq(str, m[1] + 1, m[2]))])

StringConfig(name, panel_count) == [name |-> name, panel_count |-> panel_count]

CCAConfig(name, strings) == [name |-> name, strings |-> strings]

Panel(serial, cca, str, tigo_label) ==
    [serial |-> serial, cca |-> cca, string |-> str, tigo_label |-> tigo_label]

DiscoveredPanel(serial, cca, tigo_label) ==
    [serial |-> serial, cca |-> cca, tigo_label |-> tigo_label]

MatchResult(status) ==
    [status |-> status, panel |-> None, suggested_label |-> None,
     confidence |-> None, tigo_label |-> None, needs_translation |-> FALSE,
     error |-> FALSE, reported_cca |-> None, expected_cca |-> None]

\* Variant of the serial lookup that finds nothing.
KnownBySerial_Skipped(panels, serial) ==
    {i \in DOMAIN panels : panels[i].serial = serial /\ i = 0}

\* The indices of the known panels with the discovered serial.
KnownBySerial(panels, serial) ==
    {i \in DOMAIN panels : panels[i].serial = serial}

First(indices) == CHOOSE i \in indices : \A j \in indices : i <= j

\* The test of both loops: a string of that name with panel_count at least
\* the position.
StringMatches(cca, string_name, position) ==
    \E j \in DOMAIN cca.strings :
        /\ cca.strings[j].name = string_name
        /\ position <= cca.strings[j].panel_count

\* Variant of the result for a label that does not parse that asks for a
\* translation instead of reporting the format error.
FormatError_NeedsTranslation(d) ==
    [MatchResult("unmatched") EXCEPT
        !.tigo_label = Some(d.tigo_label), !.needs_translation = TRUE]

\* The result for a label that does not parse.
FormatError(d) ==
    [MatchResult("unmatched") EXCEPT
        !.tigo_label = Some(d.tigo_label), !.error = TRUE]

match_discovered_panel(d, topology, panels) ==
    LET known == KnownBySerial(panels, d.serial)
        p == parse_tigo_label(d.tigo_label)
        same == {i \in DOMAIN topology :
                    /\ topology[i].name = d.cca
                    /\ StringMatches(topology[i], Val(p).string,
                                     Val(p).position)}
        others == {i \in DOMAIN topology :
                      /\ topology[i].name # d.cca
                      /\ StringMatches(topology[i], Val(p).string,
                                       Val(p).position)}
    IN  IF known # {}
        THEN [MatchResult("matched") EXCEPT
                !.panel = Some(panels[First(known)]),
                !.confidence = Some("high")]
        ELSE IF IsNone(p)
        THEN FormatError(d)
        ELSE IF same # {}
        THEN [MatchResult("matched") EXCEPT
                !.suggested_label = Some(d.tigo_label),
                !.confidence = Some("medium"),
                !.tigo_label = Some(d.tigo_label)]
        ELSE IF others # {}
        THEN [MatchResult("possible_wiring_issue") EXCEPT
                !.tigo_label = Some(d.tigo_label),
                !.reported_cca = Some(d.cca),
                !.expected_cca = Some(topology[First(others)].name)]
        ELSE [MatchResult("unmatched") EXCEPT
                !.tigo_label = Some(d.tigo_label),
                !.needs_translation = TRUE]

\* Every string of at most n characters.
StringsUpTo(n) == UNION {[1..k -> Chars] : k \in 0..n}

\* Raw labels that sightings carry.
SightedLabels ==
    {<<"A", "1">>, <<"A", "3">>, <<"B", "3">>, <<"A", "0">>, <<"b", "1">>,
     <<"1", "A">>, <<"B", "3", "\n">>, <<>>}

\* Expected topologies: string B only on secondary; both strings on both
\* systems with different lengths; a single system; secondary listed first.
Topologies ==
    {<<CCAConfig("primary", <<StringConfig(<<"A">>, 2)>>),
       CCAConfig("secondary", <<StringConfig(<<"B">>, 3)>>)>>,
     <<CCAConfig("primary", <<StringConfig(<<"A">>, 2), StringConfig(<<"B">>, 1)>>),
       CCAConfig("secondary", <<StringConfig(<<"A">>, 3), StringConfig(<<"B">>, 3)>>)>>,
     <<CCAConfig("primary", <<StringConfig(<<"A">>, 2)>>)>>,
     <<CCAConfig("secondary", <<StringConfig(<<"A">>, 3)>>),
       CCAConfig("tertiary", <<StringConfig(<<"A">>, 3)>>),
       CCAConfig("primary", <<StringConfig(<<"B">>, 3)>>)>>}

KnownPanelLists ==
    {<<>>,
     <<Panel("s1", "primary", <<"A">>, <<"A", "1">>)>>,
     <<Panel("s2", "secondary", <<"B">>, <<"B", "3">>),
       Panel("s1", "primary", <<"A">>, <<"A", "1">>)>>}

NotCalled == [done |-> FALSE, value |-> None]

Returned(v) == [done |-> TRUE, value |-> Some(v)]

\* No discovery call is in progress.
InitDiscovery ==
    /\ raw_label = <<>>
    /\ parsed = NotCalled
    /\ discovered = DiscoveredPanel("s1", "primary", <<>>)
    /\ expected_topology = <<>>
    /\ known_panels = <<>>
    /\ match_result = NotCalled

ParseTigoLabel ==
    /\ ~parsed.done
    /\ parsed' = Returned(parse_tigo_label(raw_label))
    /\ UNCHANGED <<raw_label, discovered, expected_topology, known_panels,
                   match_result>>
    /\ UNCHANGED outsideDiscovery

MatchDiscoveredPanel ==
    /\ ~match_result.done
    /\ expected_topology # <<>>
    /\ match_result' = Returned(match_discovered_panel(discovered,
                                   expected_topology, known_panels))
    /\ UNCHANGED <<raw_label, parsed, discovered, expected_topology,
                   known_panels>>
    /\ UNCHANGED outsideDiscovery

----------------------------------------------------------------------------
(* The event loop and the tasks that use the store                          *)
(* (dashboard/backend/app/main.py)                                         *)

\* The operations of PanelService that the handlers call; each is a plain
\* method without an await in it.
StoreOps == {"load_config", "apply_mock_data", "update_panel",
             "update_temp_nodes", "update_node_mappings", "get_all_panels"}

\* The steps of each handler in order: store operations and awaits.
Handlers ==
    [handle_mqtt_message |-> <<"update_panel", "get_all_panels", "await">>,
     handle_temp_nodes |-> <<"update_temp_nodes", "get_all_panels", "await">>,
     handle_node_mappings |->
         <<"update_node_mappings", "get_all_panels", "await">>,
     mock_refresh_loop |->
         <<"await", "load_config", "apply_mock_data", "get_all_panels",
           "await">>,
     reload_config |-> <<"load_config", "get_all_panels", "await">>,
     get_panels |-> <<"get_all_panels">>,
     websocket_endpoint |-> <<"await", "get_all_panels", "await", "await">>,
     _batch_loop |-> <<"await", "await">>,
     _heartbeat_loop |-> <<"await", "await">>]

\* The tasks of the process and the handlers each of them runs: the MQTT
\* message loop (live mode), the mock refresh loop (mock mode), a request
\* handler, a WebSocket endpoint and the two loops of the manager.
TaskHandlers(cfg) ==
    [ingest |-> IF cfg.use_mock_data THEN {}
                ELSE {"handle_mqtt_message", "handle_temp_nodes",
                      "handle_node_mappings"},
     mock |-> IF cfg.use_mock_data THEN {"mock_refresh_loop"} ELSE {},
     request |-> {"reload_config", "get_panels"},
     endpoint |-> {"websocket_endpoint"},
     batch |-> {"_batch_loop"},
     heartbeat |-> {"_heartbeat_loop"}]

LoopTasks == {"ingest", "mock", "request", "endpoint", "batch", "heartbeat"}

Idle == [handler |-> "idle", i |-> 0]

\* The step a task is at.
StepAt(t) == Handlers[handler_at[t].handler][handler_at[t].i]

\* The position after the step a task is at; a handler that has run its
\* last step returns.
After(t) ==
    IF handler_at[t].i = Len(Handlers[handler_at[t].handler]) THEN Idle
    ELSE [handler_at[t] EXCEPT !.i = @ + 1]

\* Variant of the suspension points in which a task can be suspended
\* anywhere, also in the middle of a store operation.
Suspends_Anywhere(step) == step \in StoreOps \cup {"await"}

\* A task gives up the event loop only at an await.
Suspends(step) == step = "await"

InitSched ==
    /\ current = None
    /\ handler_at = [t \in LoopTasks |-> Idle]
    /\ inside = {}

\* The event loop starts a handler: a message, a request or a connection
\* has come in, or a loop task is created.
StartHandler ==
    \E t \in LoopTasks :
        \E h \in TaskHandlers(settings)[t] :
            /\ IsNone(current)
            /\ handler_at[t] = Idle
            /\ current' = Some(t)
            /\ handler_at' = [handler_at EXCEPT ![t] = [handler |-> h, i |-> 1]]
            /\ UNCHANGED inside
            /\ UNCHANGED outsideSched

\* The event loop resumes a suspended task: the await it was suspended in
\* is behind it, and its handler returns if that was the last step.
Resume ==
    \E t \in LoopTasks :
        /\ IsNone(current)
        /\ handler_at[t] # Idle
        /\ handler_at' = IF StepAt(t) = "await"
                         THEN [handler_at EXCEPT ![t] = After(t)]
                         ELSE handler_at
        /\ current' = IF handler_at'[t] = Idle THEN None ELSE Some(t)
        /\ UNCHANGED inside
        /\ UNCHANGED outsideSched

\* The running task begins the store operation it is at.
BeginStoreOp ==
    \E t \in LoopTasks :
        /\ current = Some(t)
        /\ StepAt(t) \in StoreOps
        /\ t \notin inside
        /\ inside' = inside \cup {t}
        /\ UNCHANGED <<current, handler_at>>
        /\ UNCHANGED outsideSched

\* The running task finishes its store operation; it keeps the loop unless
\* its handler returns with that.
EndStoreOp ==
    \E t \in LoopTasks :
        /\ current = Some(t)
        /\ t \in inside
        /\ inside' = inside \ {t}
        /\ handler_at' = [handler_at EXCEPT ![t] = After(t)]
        /\ current' = IF After(t) = Idle THEN None ELSE current
        /\ UNCHANGED outsideSched

\* The running task is suspended at the step it is at and gives the event
\* loop to the others.
Suspend ==
    \E t \in LoopTasks :
        /\ current = Some(t)
        /\ Suspends(StepAt(t))
        /\ current' = None
        /\ UNCHANGED <<handler_at, inside>>
        /\ UNCHANGED outsideSched

----------------------------------------------------------------------------
(* The discovery service of the setup wizard                               *)
(* (dashboard/backend/app/discovery_service.py, discovery_router.py)       *)

\* dict.get(key, default) on a record of a state message.
GetOr(node_data, key, default) ==
    IF key \in DOMAIN node_data THEN node_data[key] ELSE default

\* Python's "a or b" on numbers: b stands in for a zero.
Or(a, b) == IF a # 0 THEN a ELSE b

\* Variant of the test for a new serial that takes every sighting as new.
IsNew_Always(panels, node_serial) == node_serial = node_serial

\* is_new: the serial is not in the discovered map.
IsNew(panels, node_serial) == node_serial \notin DOMAIN panels

\* An event handed to _emit_event.
Event(type, serial, watts, voltage) ==
    [type |-> type, serial |-> serial, watts |-> watts, voltage |-> voltage]

\* _process_state_message from record i on, at time t: the discovered map
\* after it and the events it emits, in order.
RECURSIVE _process_state_message(_, _, _, _, _)
_process_state_message(panels, nodes, i, source_system, t) ==
    IF i > Len(nodes) THEN [panels |-> panels, events |-> <<>>]
    ELSE IF nodes[i] = NotAnObject
            \/ GetOr(nodes[i], "node_serial", "") = ""
    THEN _process_state_message(panels, nodes, i + 1, source_system, t)
    ELSE LET node_serial == nodes[i]["node_serial"]
             tigo_label == GetOr(nodes[i], "node_name", "")
             watts == GetOr(nodes[i], "power", 0)
             voltage == GetOr(nodes[i], "voltage_in", 0)
             panel ==
                 IF IsNew(panels, node_serial)
                 THEN [serial |-> node_serial, cca |-> source_system,
                       tigo_label |-> tigo_label, watts |-> Or(watts, 0),
                       voltage |-> Or(voltage, 0), discovered_at |-> t,
                       last_seen_at |-> t]
                 ELSE [panels[node_serial] EXCEPT
                         !.watts = Or(watts, @), !.voltage = Or(voltage, @),
                         !.last_seen_at = t]
             event ==
                 Event(IF IsNew(panels, node_serial) THEN "panel_discovered"
                       ELSE "panel_updated",
                       node_serial, panel.watts, panel.voltage)
             rest == _process_state_message(Put(panels, node_serial, panel),
                                            nodes, i + 1, source_system, t)
         IN  [panels |-> rest.panels, events |-> <<event>> \o rest.events]

\* Records of the state messages seen in discovery mode: two readings of s1,
\* one of them of zero, a reading of s2 without a voltage, a record without
\* a serial and a value that is not an object.
SightedRecords ==
    {[node_serial |-> "s1", node_name |-> "A1", power |-> 5, voltage_in |-> 7],
     [node_serial |-> "s1", node_name |-> "A1", power |-> 0, voltage_in |-> 7],
     [node_serial |-> "s2", node_name |-> "B2", power |-> 7],
     [node_name |-> "A3", power |-> 5],
     NotAnObject}

\* State messages: the system of the topic and the records under "nodes".
StateMessages ==
    {[system |-> sys, nodes |-> nodes] :
        sys \in {"primary"},
        nodes \in {<<r>> : r \in SightedRecords}
                  \cup {<<[node_serial |-> "s2", node_name |-> "B2",
                           power |-> 7], r>> : r \in SightedRecords}}

\* The tasks that run _discovery_loop, in the order of their creation.
LoopTaskIds == 1..MaxTasks

\* The request handlers that call stop_discovery.
StopCallers == {"r1", "r2"}

\* The service after __init__.
InitService ==
    /\ discovered_panels = EmptyMap
    /\ service_running = FALSE
    /\ mqtt_task = None
    /\ loop_tasks = [t \in LoopTaskIds |-> "none"]
    /\ stops = [c \in StopCallers |-> None]
    /\ sighting = None
    /\ emitted = <<>>
    /\ sighted = {}

\* The service with discovery started: one loop is running.
StartedService ==
    /\ discovered_panels = EmptyMap
    /\ service_running = TRUE
    /\ mqtt_task = Some(1)
    /\ loop_tasks = [t \in LoopTaskIds |-> IF t = 1 THEN "running" ELSE "none"]
    /\ stops = [c \in StopCallers |-> None]
    /\ sighting = None
    /\ emitted = <<>>
    /\ sighted = {}

\* The task that create_task would make next.
NextTask == CHOOSE t \in LoopTaskIds :
                /\ loop_tasks[t] = "none"
                /\ \A u \in LoopTaskIds : loop_tasks[u] = "none" => t <= u

\* POST /api/discovery/start: the map is cleared, then start_discovery
\* creates the loop task unless discovery is running.
StartDiscovery ==
    /\ \E t \in LoopTaskIds : loop_tasks[t] = "none"
    /\ discovered_panels' = EmptyMap
    /\ sighted' = {}
    /\ IF service_running
       THEN UNCHANGED <<service_running, mqtt_task, loop_tasks>>
       ELSE /\ service_running' = TRUE
            /\ mqtt_task' = Some(NextTask)
            /\ loop_tasks' = [loop_tasks EXCEPT ![NextTask] = "running"]
    /\ UNCHANGED <<stops, sighting, emitted>>
    /\ UNCHANGED outsideService

\* stop_discovery up to its await: _running is cleared and the task the
\* service refers to is cancelled; without a task the call returns at once.
StopDiscovery ==
    \E c \in StopCallers :
        /\ IsNone(stops[c])
        /\ service_running' = FALSE
        /\ IF IsNone(mqtt_task)
           THEN UNCHANGED <<loop_tasks, stops>>
           ELSE /\ loop_tasks' =
                     [loop_tasks EXCEPT
                        ![Val(mqtt_task)] =
                            IF @ = "running" THEN "cancelled" ELSE @]
                /\ stops' = [stops EXCEPT ![c] = mqtt_task]
        /\ UNCHANGED <<discovered_panels, mqtt_task, sighting, emitted,
                       sighted>>
        /\ UNCHANGED outsideService

\* The CancelledError reaches a cancelled loop at its await and ends it.
LoopCancelled ==
    \E t \in LoopTaskIds :
        /\ loop_tasks[t] = "cancelled"
        /\ loop_tasks' = [loop_tasks EXCEPT ![t] = "done"]
        /\ UNCHANGED <<discovered_panels, service_running, mqtt_task, stops,
                       sighting, emitted, sighted>>
        /\ UNCHANGED outsideService

\* stop_discovery after its await: the awaited task is over and the
\* reference of the service is set to None.
StopDiscoveryReturn ==
    \E c \in StopCallers :
        /\ ~IsNone(stops[c])
        /\ loop_tasks[Val(stops[c])] = "done"
        /\ mqtt_task' = None
        /\ stops' = [stops EXCEPT ![c] = None]
        /\ UNCHANGED <<discovered_panels, service_running, loop_tasks,
                       sighting, emitted, sighted>>
        /\ UNCHANGED outsideService

\* A loop that finds _running cleared ends: at the next message without an
\* event, at a connection error after a connection_status event.
LoopExit ==
    \E t \in LoopTaskIds, error \in BOOLEAN :
        /\ loop_tasks[t] = "running"
        /\ ~service_running
        /\ loop_tasks' = [loop_tasks EXCEPT ![t] = "done"]
        /\ emitted' = IF error
                      THEN <<Event("connection_status", "", 0, 0)>>
                      ELSE <<>>
        /\ sighting' = None
        /\ UNCHANGED <<discovered_panels, service_running, mqtt_task, stops,
                       sighted>>
        /\ UNCHANGED outsideService

\* A running loop receives a state message and processes it.
Sight(messages) ==
    \E t \in LoopTaskIds, message \in messages :
        /\ loop_tasks[t] = "running"
        /\ service_running
        /\ LET r == _process_state_message(discovered_panels, message.nodes,
                                           1, message.system, now)
           IN  /\ discovered_panels' = r.panels
               /\ emitted' = r.events
               /\ sighted' = sighted \cup {e.serial : e \in Range(r.events)}
        /\ sighting' = Some(message)
        /\ UNCHANGED <<service_running, mqtt_task, loop_tasks, stops>>
        /\ UNCHANGED outsideService

\* POST /api/discovery/clear.
ClearDiscovered ==
    /\ discovered_panels' = EmptyMap
    /\ sighted' = {}
    /\ UNCHANGED <<service_running, mqtt_task, loop_tasks, stops, sighting,
                   emitted>>
    /\ UNCHANGED outsideService

----------------------------------------------------------------------------
(* Ingestion: the MQTT client between start and stop *)

InitIngest ==
    /\ InitStore
    /\ settings = [use_mock_data |-> FALSE,
                   staleness_threshold_seconds |-> MaxThreshold]
    /\ InitManager
    /\ InitClient
    /\ InitSched
    /\ InitService
    /\ InitDiscovery

NextIngest ==
    \/ StartClient
    \/ ConnectOk
    \/ ConnectFail
    \/ Subscribe
    \/ SubscribeFail
    \/ ConnectionLost
    \/ SleepDone
    \/ Deliver
    \/ Processed
    \/ Stop
    \/ Cancelled
    \/ Unwound
    \/ StopReturn

SpecIngest == InitIngest /\ [][NextIngest]_vars

\* The event loop runs a task whose sleep has ended or that was cancelled.
SpecIngestFair ==
    /\ SpecIngest
    /\ WF_vars(SleepDone)
    /\ WF_vars(Cancelled)
    /\ WF_vars(Unwound)

\* Routing: the client from start on, with messages whose topics and
\* records are given in detail.
NextRoute ==
    \/ StartClient
    \/ ConnectOk
    \/ Subscribe
    \/ Route
    \/ Processed

SpecRoute == InitIngest /\ [][NextRoute]_vars

----------------------------------------------------------------------------
(* Push delivery: the manager with its batch loop and WebSocket endpoints *)

InitPush ==
    /\ InitStore
    /\ InitClient
    /\ InitSched
    /\ InitService
    /\ InitDiscovery
    /\ settings = [use_mock_data |-> FALSE,
                   staleness_threshold_seconds |-> MaxThreshold]
    /\ InitConnections
    /\ StartedTasks

\* Batching: every snapshot, up to MaxQueued calls per batch interval, two
\* clients.
NextBatch ==
    \/ QueueUpdate(Snapshots, MaxQueued)
    \/ BatchCycle
    \/ BroadcastSend({"batch", "w1", "w2"})
    \/ BroadcastEnd({"batch", "w1", "w2"})
    \/ Connect({"w1", "w2"}, {<<"p1">>})
    \/ PeerGone({"w1"})
    \/ Disconnect({"w1"})

SpecBatch == InitPush /\ [][NextBatch]_vars

\* Fan-out: two clients are connected and have received their initial state,
\* a third one joins; clients go away while passes are running.
InitFanOut ==
    /\ InitStore
    /\ settings = [use_mock_data |-> FALSE,
                   staleness_threshold_seconds |-> MaxThreshold]
    /\ InitClient
    /\ InitSched
    /\ InitService
    /\ InitDiscovery
    /\ active_connections = <<"w1", "w2">>
    /\ pending_update = FALSE
    /\ panel_data = <<>>
    /\ passes = [t \in Tasks |-> IdlePass]
    /\ endpoint = [c \in WebSockets |->
                      IF c = "w3" THEN "new" ELSE "receiving"]
    /\ broken = {}
    /\ queued = <<>>
    /\ cycle = [queued |-> <<>>, pending |-> FALSE, sent |-> None]
    /\ stalled = {}
    /\ screen = [c \in WebSockets |-> None]
    /\ disconnects = <<>>
    /\ StartedTasks

NextFanOut ==
    \/ QueueUpdate({<<"p1">>}, 1)
    \/ BatchCycle
    \/ BroadcastSend(Tasks)
    \/ BroadcastEnd(Tasks)
    \/ Connect(WebSockets, {<<"p1">>})
    \/ PeerGone(WebSockets)
    \/ Disconnect(WebSockets)

SpecFanOut == InitFanOut /\ [][NextFanOut]_vars

\* The manager with its tasks started and two clients connected that have
\* received their initial state; a third client has not connected yet.
TwoConnected ==
    /\ active_connections = <<"w1", "w2">>
    /\ pending_update = FALSE
    /\ panel_data = <<>>
    /\ passes = [t \in Tasks |-> IdlePass]
    /\ endpoint = [c \in WebSockets |->
                      IF c = "w3" THEN "new" ELSE "receiving"]
    /\ broken = {}
    /\ queued = <<>>
    /\ cycle = [queued |-> <<>>, pending |-> FALSE, sent |-> None]
    /\ stalled = {}
    /\ screen = [c \in WebSockets |-> None]
    /\ disconnects = <<>>
    /\ StartedTasks

\* Slow viewers: peers stop reading or go away while the batch and the
\* heartbeat loop run their passes and snapshots are queued.
InitStall ==
    /\ InitStore
    /\ settings = [use_mock_data |-> FALSE,
                   staleness_threshold_seconds |-> MaxThreshold]
    /\ InitClient
    /\ InitSched
    /\ InitService
    /\ InitDiscovery
    /\ TwoConnected

NextStall ==
    \/ QueueUpdate({<<"p1">>, <<"p1", "p2">>}, MaxQueued)
    \/ BatchCycle
    \/ HeartbeatCycle
    \/ BroadcastSend({"batch", "heartbeat"})
    \/ BroadcastEnd({"batch", "heartbeat"})
    \/ Stall({"w1", "w2"})
    \/ PeerGone({"w1", "w2"})

SpecStall == InitStall /\ [][NextStall]_vars

\* Registries the manager can hold: every list of distinct connections.
Registries ==
    {r \in UNION {[1..n -> WebSockets] : n \in 0..Cardinality(WebSockets)} :
        \A i, j \in DOMAIN r : r[i] = r[j] => i = j}

\* disconnect on every registry, for registered and unregistered connections
\* and repeatedly.
InitRegistry ==
    /\ InitStore
    /\ settings = [use_mock_data |-> FALSE,
                   staleness_threshold_seconds |-> MaxThreshold]
    /\ InitClient
    /\ InitSched
    /\ InitService
    /\ InitDiscovery
    /\ active_connections \in Registries
    /\ pending_update = FALSE
    /\ panel_data = <<>>
    /\ passes = [t \in Tasks |-> IdlePass]
    /\ endpoint = [c \in WebSockets |->
                      IF c \in Range(active_connections) THEN "receiving"
                      ELSE "new"]
    /\ broken = {}
    /\ queued = <<>>
    /\ cycle = [queued |-> <<>>, pending |-> FALSE, sent |-> None]
    /\ stalled = {}
    /\ screen = [c \in WebSockets |-> None]
    /\ disconnects = <<>>
    /\ StartedTasks

NextRegistry == DisconnectCall(WebSockets, MaxCalls)

SpecRegistry == InitRegistry /\ [][NextRegistry]_vars

\* Life cycle of the periodic tasks: the manager right after __init__, the
\* tasks started (more than once) and stopped while clients connect,
\* snapshots are queued and both loops run their passes.
InitLifeCycle ==
    /\ InitStore
    /\ settings = [use_mock_data |-> FALSE,
                   staleness_threshold_seconds |-> MaxThreshold]
    /\ InitClient
    /\ InitSched
    /\ InitService
    /\ InitDiscovery
    /\ InitManager

NextLifeCycle ==
    \/ StartBackgroundTasks(MaxStarts)
    \/ StopBackgroundTasks
    \/ BatchTaskAwaited
    \/ HeartbeatTaskAwaited
    \/ Connect({"w1", "w2"}, {<<"p1">>})
    \/ QueueUpdate({<<"p1">>}, 1)
    \/ BatchCycle
    \/ HeartbeatCycle
    \/ BroadcastSend({"batch", "heartbeat", "w1", "w2"})
    \/ BroadcastEnd({"batch", "heartbeat", "w1", "w2"})
    \/ Stall({"w1"})

SpecLifeCycle == InitLifeCycle /\ [][NextLifeCycle]_vars

\* Passes against registration and removal: the heartbeat loop and the
\* initial-state broadcasts of the endpoints run their passes while a third
\* client connects and clients go away.
InitPasses ==
    /\ InitStore
    /\ settings = [use_mock_data |-> FALSE,
                   staleness_threshold_seconds |-> MaxThreshold]
    /\ InitClient
    /\ InitSched
    /\ InitService
    /\ InitDiscovery
    /\ TwoConnected

NextPasses ==
    \/ HeartbeatCycle
    \/ BroadcastSend({"heartbeat"} \cup WebSockets)
    \/ BroadcastEnd({"heartbeat"} \cup WebSockets)
    \/ Connect(WebSockets, {<<"p1">>})
    \/ PeerGone(WebSockets)
    \/ Disconnect(WebSockets)

SpecPasses == InitPasses /\ [][NextPasses]_vars

----------------------------------------------------------------------------
(* Label parsing on every string of at most MaxLabelLen characters *)

InitParse ==
    /\ InitStore
    /\ settings = [use_mock_data |-> FALSE,
                   staleness_threshold_seconds |-> MaxThreshold]
    /\ InitManager
    /\ InitClient
    /\ InitSched
    /\ InitService
    /\ raw_label \in StringsUpTo(MaxLabelLen)
    /\ parsed = NotCalled
    /\ discovered = DiscoveredPanel("s1", "primary", <<>>)
    /\ expected_topology = <<>>
    /\ known_panels = <<>>
    /\ match_result = NotCalled

NextParse == ParseTigoLabel

SpecParse == InitParse /\ [][NextParse]_vars

----------------------------------------------------------------------------
(* Matching of sightings against topologies and known panels *)

InitMatch ==
    /\ InitStore
    /\ settings = [use_mock_data |-> FALSE,
                   staleness_threshold_seconds |-> MaxThreshold]
    /\ InitManager
    /\ InitClient
    /\ InitSched
    /\ InitService
    /\ raw_label = <<>>
    /\ parsed = NotCalled
    /\ discovered \in {DiscoveredPanel(sn, cca, l) :
                          sn \in Serials,
                          cca \in {"primary", "secondary"},
                          l \in SightedLabels}
    /\ expected_topology \in Topologies
    /\ known_panels \in KnownPanelLists
    /\ match_result = NotCalled

NextMatch == MatchDiscoveredPanel

SpecMatch == InitMatch /\ [][NextMatch]_vars

----------------------------------------------------------------------------
(* Topology loads: every file content, live and mock mode, no clock *)

InitTopology ==
    /\ InitStore
    /\ InitClient
    /\ InitSched
    /\ InitService
    /\ InitDiscovery
    /\ InitManager
    /\ settings \in [use_mock_data : BOOLEAN,
                      staleness_threshold_seconds : {MaxThreshold}]

NextTopology ==
    \/ WriteYaml(DOMAIN YamlSources, {now})
    \/ WriteJson(DOMAIN JsonSources, {now})
    \/ RemoveYaml
    \/ RemoveJson
    \/ LoadConfig
    \/ UpdatePanel(UpdateCalls)
    \/ ApplyMockData

SpecTopology == InitTopology /\ [][NextTopology]_vars

----------------------------------------------------------------------------
(* Hot reload: files change over time, the store polls them *)

InitReload ==
    /\ InitStore
    /\ InitClient
    /\ InitSched
    /\ InitService
    /\ InitDiscovery
    /\ InitManager
    /\ settings \in [use_mock_data : BOOLEAN,
                      staleness_threshold_seconds : {MaxThreshold}]

NextReload ==
    \/ Tick(MaxTime)
    \/ WriteYaml({"Y_B", "Y_bad"}, {0, now})
    \/ WriteJson({"J_A", "J_bad"}, {0, now})
    \/ RemoveYaml
    \/ RemoveJson
    \/ LoadConfig
    \/ CheckAndReloadConfig
    \/ GetAllPanels
    \/ UpdatePanel({FullCall("s1")})
    \/ ApplyMockData

SpecReload == InitReload /\ [][NextReload]_vars

----------------------------------------------------------------------------
(* Telemetry and staleness in live (non-mock) mode: one legacy file, a      *)
(* clock that runs past the staleness threshold, known and unknown serials *)

Init ==
    /\ InitStore
    /\ InitClient
    /\ InitSched
    /\ InitService
    /\ InitDiscovery
    /\ InitManager
    /\ settings = [use_mock_data |-> FALSE,
                   staleness_threshold_seconds |-> MaxThreshold]

Next ==
    \/ Tick(MaxThreshold + 1)
    \/ WriteJson({"J_A", "J_AB"}, {now})
    \/ LoadConfig
    \/ UpdatePanel({FullCall("s1"), PartialCall("s1"), PartialCall("s2"),
                    PartialCall("s9")})
    \/ CheckStaleness
    \/ GetAllPanels

Spec == Init /\ [][Next]_vars

----------------------------------------------------------------------------
(* Node identifiers and temporary enumeration in live mode: telemetry with  *)
(* and without node id, temp-node lists and node mappings of both systems, *)
(* and YAML topologies that keep panel A2 in its system or move it         *)

\* Telemetry that carries a node id, and telemetry that does not.
NodeCall(sn, node_id) ==
    UpdateArgs(sn, PartialPayload, None, None, node_id, None)

NodeCalls == {NodeCall("s1", Some("1")), NodeCall("s2", None)}

\* Payloads of the temp_nodes topic.
NodeIdLists == {<<>>, <<1>>, <<2, 1>>}

\* Payloads of the node_mappings topic; the last one maps two node ids to
\* the same serial.
MappingPayloads ==
    {<<Mapping("2", "s1")>>, <<Mapping("1", "s2"), Mapping("2", "s2")>>}

InitNodes ==
    /\ InitStore
    /\ InitClient
    /\ InitSched
    /\ InitService
    /\ InitDiscovery
    /\ InitManager
    /\ settings = [use_mock_data |-> FALSE,
                   staleness_threshold_seconds |-> MaxThreshold]

NextNodes ==
    \/ WriteYaml({"Y_AB", "Y_B"}, {now})
    \/ LoadConfig
    \/ UpdatePanel(NodeCalls)
    \/ UpdateTempNodes(Systems, NodeIdLists)
    \/ UpdateNodeMappings({"primary"}, MappingPayloads)

SpecNodes == InitNodes /\ [][NextNodes]_vars

----------------------------------------------------------------------------
(* The store behind the push delivery: telemetry handled by the MQTT       *)
(* callback, one viewer that stays connected, REST reads, a clock that     *)
(* runs past the staleness threshold                                       *)

\* list(self.panel_state.values()): the PanelData records in the order of
\* the topology.
PanelList(state) ==
    LET labels == SelectSeq(<<"A1", "A2">>, LAMBDA l : l \in DOMAIN state)
    IN  [i \in DOMAIN labels |-> state[labels[i]]]

\* handle_mqtt_message: update_panel, get_all_panels, queue_update; the
\* message loop hands over the next message when the lock is free.
HandleMqttMessage(calls) ==
    \E a \in calls :
        LET u == update_panel(Self, a, now)
            r == get_all_panels(u.s, yaml_file, json_file, settings, now)
            q == queue_update(panel_data, pending_update,
                              PanelList(r.s.panel_state))
        IN  /\ ~settings.use_mock_data
            /\ ~Locked
            /\ Commit(r.s)
            /\ last' = Did("handle_mqtt_message", Some(a), u.ret, r.err,
                           r.loaded, r.mocked)
            /\ IF r.err = "none"
               THEN /\ panel_data' = q.panel_data
                    /\ pending_update' = q.pending_update
               ELSE UNCHANGED <<panel_data, pending_update>>
            /\ UNCHANGED <<active_connections, passes, endpoint, broken,
                           queued, cycle, taskVars, stalled, screen,
                           disconnects>>
            /\ UNCHANGED <<envVars, clientVars, discoveryVars, schedVars,
                           serviceVars>>

\* websocket_endpoint of the first viewer: connect, then broadcast
\* get_all_panels() as the initial state; nothing is awaited between
\* get_all_panels and the write to the only registered connection. The
\* application serves once lifespan has loaded the topology.
ViewerConnect(websockets) ==
    \E c \in websockets :
        LET r == get_all_panels(Self, yaml_file, json_file, settings, now)
            panels == PanelList(r.s.panel_state)
        IN  /\ ~IsNone(panel_mapping)
            /\ active_connections = <<>>
            /\ endpoint[c] = "new"
            /\ r.err = "none"
            /\ Commit(r.s)
            /\ last' = Did("websocket_endpoint", None, r.ret, r.err,
                           r.loaded, r.mocked)
            /\ active_connections' = <<c>>
            /\ passes' = [passes EXCEPT
                            ![c] = SendJson(BeginBroadcast(<<c>>, panels),
                                            <<c>>, broken)]
            /\ screen' = [screen EXCEPT ![c] = Some(panels)]
            /\ endpoint' = [endpoint EXCEPT ![c] = "broadcasting"]
            /\ UNCHANGED <<pending_update, panel_data, broken, queued, cycle,
                           taskVars, stalled, disconnects>>
            /\ UNCHANGED <<envVars, clientVars, discoveryVars, schedVars,
                           serviceVars>>

\* lifespan loads the topology before the application serves.
StartupLoad ==
    /\ IsNone(panel_mapping)
    /\ LoadConfig

InitConverge ==
    /\ InitStore
    /\ settings = [use_mock_data |-> FALSE,
                   staleness_threshold_seconds |-> MaxThreshold]
    /\ InitClient
    /\ InitSched
    /\ InitService
    /\ InitDiscovery
    /\ InitConnections
    /\ StartedTasks

NextConverge ==
    \/ WriteJson({"J_A"}, {0})
    \/ StartupLoad
    \/ Tick(MaxThreshold + 1)
    \/ HandleMqttMessage({PartialCall("s1")})
    \/ ViewerConnect({"w1"})
    \/ GetAllPanels
    \/ BatchCycle
    \/ ViewerSend({"batch", "w1"})
    \/ BroadcastEnd({"batch", "w1"})

SpecConverge == InitConverge /\ [][NextConverge]_vars

----------------------------------------------------------------------------
(* Scheduling: every task of the process on the one event loop, in live    *)
(* and in mock mode                                                        *)

InitSchedule ==
    /\ InitStore
    /\ settings \in [use_mock_data : BOOLEAN,
                      staleness_threshold_seconds : {MaxThreshold}]
    /\ InitClient
    /\ InitSched
    /\ InitService
    /\ InitDiscovery
    /\ InitManager

NextSchedule ==
    \/ StartHandler
    \/ Resume
    \/ BeginStoreOp
    \/ EndStoreOp
    \/ Suspend

SpecSchedule == InitSchedule /\ [][NextSchedule]_vars

----------------------------------------------------------------------------
(* Sightings: discovery is running and state messages come in while time   *)
(* passes and the operator clears the map                                  *)

InitSightings ==
    /\ InitStore
    /\ settings = [use_mock_data |-> FALSE,
                   staleness_threshold_seconds |-> MaxThreshold]
    /\ InitManager
    /\ InitClient
    /\ InitSched
    /\ InitDiscovery
    /\ StartedService

NextSightings ==
    \/ Tick(MaxThreshold + 1)
    \/ Sight(StateMessages)
    \/ ClearDiscovered

SpecSightings == InitSightings /\ [][NextSightings]_vars

----------------------------------------------------------------------------
(* Discovery sessions: start and stop requests against the loops           *)

NextSessions ==
    \/ StartDiscovery
    \/ StopDiscovery
    \/ LoopCancelled
    \/ StopDiscoveryReturn
    \/ LoopExit
    \/ Sight({[system |-> "primary",
               nodes |-> <<[node_serial |-> "s1", power |-> 5]>>]})

SpecSessions == InitIngest /\ [][NextSessions]_vars

----------------------------------------------------------------------------
(* Properties of topology loads *)

\* A step in which load_config completed and no mock data was applied after.
LoadedStep == last'.loaded /\ ~last'.mocked

\* C1: a successful load keeps, for every display label that is in the
\* topology before and after it, all nine telemetry fields of that label's
\* PanelData as they were.
C1_ReloadPreservesTelemetry ==
    [][LoadedStep =>
         \A l \in TopologyLabels \cap TopologyLabels' :
            /\ l \in DOMAIN panel_state /\ l \in DOMAIN panel_state'
            /\ Telemetry(panel_state'[l]) = Telemetry(panel_state[l])]_vars

\* A load has just replaced the topology by a different one and a label of
\* both topologies still carries the readings it had.
C1_Witness ==
    /\ last.op = "load_config" /\ last.loaded
    /\ last.prev_labels # TopologyLabels
    /\ \E l \in last.prev_labels \cap TopologyLabels :
          Telemetry(panel_state[l]) = FullPayload

\* C2: after a successful load, every label that was not in the topology
\* before the load and is in it now has no telemetry at all, is online and
\* is not stale.
C2_NewLabelsStartEmpty ==
    (last.loaded /\ ~last.mocked) =>
        \A l \in TopologyLabels \ last.prev_labels :
            /\ Telemetry(panel_state[l]) = NoTelemetry
            /\ panel_state[l].online
            /\ ~panel_state[l].stale

\* C3: the labels that have a PanelData are exactly the labels of the active
\* topology, and each PanelData belongs to exactly one topology entry.
C3_StateMatchesTopology ==
    /\ DOMAIN panel_state = TopologyLabels
    /\ \A l \in DOMAIN panel_state :
          Cardinality({i \in DOMAIN Val(panel_mapping) :
                         Val(panel_mapping)[i].display_label = l}) = 1

\* Whether load_config has a usable source in front of it.
SourceMissing == ~yaml_file.exists /\ ~json_file.exists

SourceUnparseable ==
    IF yaml_file.exists THEN ~YamlSources[yaml_file.content].parses
    ELSE json_file.exists /\ ~JsonSources[json_file.content].parses

SourceHasDuplicateSerials ==
    IF yaml_file.exists
    THEN LET doc == YamlSources[yaml_file.content].panels
         IN  \E i, j \in DOMAIN doc : i # j /\ doc[i].serial = doc[j].serial
    ELSE /\ json_file.exists
         /\ LET doc == JsonSources[json_file.content].panels
            IN  \E i, j \in DOMAIN doc : i # j /\ doc[i].sn = doc[j].sn

\* C4: load_config on a missing, unparseable or duplicate-serial source
\* returns an error, and a load_config that returns an error leaves the
\* topology, the serial lookup, every PanelData, the last-update times and
\* the recorded modification time as they were.
C4_FailedLoadLeavesStore ==
    [][last'.op = "load_config" =>
         /\ (SourceMissing \/ SourceUnparseable \/ SourceHasDuplicateSerials)
               => last'.err # "none"
         /\ last'.err # "none" => UNCHANGED storeVars]_vars

\* A load has just failed on duplicate serials while the store holds a
\* topology and readings from before.
C4_Witness ==
    /\ last.op = "load_config" /\ last.err = "ValidationError"
    /\ ~IsNone(panel_mapping)
    /\ \E l \in DOMAIN panel_state : Telemetry(panel_state[l]) = FullPayload

----------------------------------------------------------------------------
(* Properties of hot reload *)

\* C5: once a topology has been loaded, a get_all_panels call always
\* completes (no error reaches its caller) and serves a PanelData for every
\* label of the last topology that loaded, whatever has happened to the
\* topology files since.
C5_SnapshotAlwaysServes ==
    (last.op = "get_all_panels" /\ ~IsNone(panel_mapping)) =>
        /\ last.err = "none"
        /\ TopologyLabels \subseteq DOMAIN panel_state

\* The file check_and_reload_config watches: the one the store loaded last.
WatchedFile == IF using_yaml THEN yaml_file ELSE json_file

AbsDiff(a, b) == IF a >= b THEN a - b ELSE b - a

\* A check_and_reload_config call went on to load_config (which then
\* completed or raised).
LoadAttempted == last'.loaded \/ last'.err # "none"

\* C6 as stated: once a topology has been loaded, check_and_reload_config
\* goes on to load exactly when the watched file's modification time differs
\* from the recorded one by more than 2, returns true exactly when it
\* reloaded, and otherwise leaves the store as it was.
C6_ReloadIffMtimeDiffers ==
    [][(last'.op = "check_and_reload_config" /\ ~IsNone(panel_mapping)) =>
         LET differs == /\ WatchedFile.exists
                        /\ AbsDiff(WatchedFile.mtime, config_mtime) > 2
         IN  /\ LoadAttempted <=> differs
             /\ last'.ret <=> last'.loaded
             /\ ~differs => UNCHANGED storeVars]_vars

\* When check_and_reload_config goes on to load: the watched file exists and
\* is newer than the recorded modification time by more than 2, or the
\* watched legacy file is gone while a YAML file exists.
ReloadDue ==
    \/ WatchedFile.exists /\ WatchedFile.mtime - config_mtime > 2
    \/ ~WatchedFile.exists /\ ~using_yaml /\ yaml_file.exists

\* C6 amended: check_and_reload_config goes on to load exactly when
\* ReloadDue; it returns true exactly when that load completed, and the
\* store then holds the topology and modification time of the file that
\* load_config reads; when no load is due it returns false and leaves the
\* store as it was, also for an older modification time.
C6_ReloadIffNewerOrUpgrade ==
    [][last'.op = "check_and_reload_config" =>
         /\ LoadAttempted <=> ReloadDue
         /\ last'.ret <=> last'.loaded
         /\ last'.loaded =>
               /\ using_yaml' = yaml_file.exists
               /\ config_mtime' = (IF yaml_file.exists THEN yaml_file.mtime
                                    ELSE json_file.mtime)
         /\ ~ReloadDue => ~last'.ret /\ UNCHANGED storeVars]_vars

\* check_and_reload_config has just reloaded the legacy file because it was
\* newer by more than the tolerance.
C6_Witness ==
    /\ last.op = "check_and_reload_config" /\ last.ret /\ last.loaded
    /\ ~using_yaml /\ config_mtime > 2
    /\ json_file.mtime = config_mtime

----------------------------------------------------------------------------
(* Properties of telemetry updates and staleness *)

TopologySerials ==
    IF IsNone(panel_mapping) THEN {}
    ELSE {Val(panel_mapping)[i].sn : i \in DOMAIN Val(panel_mapping)}

\* The step is an update_panel call for a serial of / not of the topology.
UnknownUpdate ==
    last'.op = "update_panel" /\ Val(last'.args).sn \notin TopologySerials

MatchedUpdate ==
    last'.op = "update_panel" /\ Val(last'.args).sn \in TopologySerials

UpdatedLabel == panels_by_sn[Val(last'.args).sn].display_label

\* C8 as stated: after a matched update_panel every telemetry field is the
\* argument of the call (absent if not supplied), while node_id, online and
\* last_update keep their previous value when the call leaves out node_id,
\* online and timestamp.
C8_FullSnapshotKeepsOnlineAndTime ==
    [][MatchedUpdate =>
         LET a == Val(last'.args)
             old == panel_state[UpdatedLabel]
             new == panel_state'[UpdatedLabel]
         IN  /\ last'.ret
             /\ Telemetry(new) = a.telemetry
             /\ IsNone(a.node_id) => new.node_id = old.node_id
             /\ IsNone(a.online) => new.online = old.online
             /\ IsNone(a.timestamp) => new.last_update = old.last_update]_vars

\* C8 amended: after a matched update_panel every telemetry field is the
\* argument of the call (absent if not supplied); node_id is the argument,
\* or the previous node_id when the call leaves it out; online is the
\* argument, or true when the call leaves it out; last_update is the time
\* of the call whatever timestamp was passed; stale is false.
C8_FullSnapshotKeepsNodeId ==
    [][MatchedUpdate =>
         LET a == Val(last'.args)
             old == panel_state[UpdatedLabel]
             new == panel_state'[UpdatedLabel]
         IN  /\ last'.ret
             /\ Telemetry(new) = a.telemetry
             /\ new.node_id = (IF IsNone(a.node_id) THEN old.node_id
                               ELSE a.node_id)
             /\ new.online = (IF IsNone(a.online) THEN TRUE ELSE Val(a.online))
             /\ new.last_update = Some(now)
             /\ last_update'[UpdatedLabel] = now
             /\ ~new.stale]_vars

\* A partial update has just replaced a full one: the fields it left out
\* are absent, the node id of the earlier update is still there.
C8_Witness ==
    /\ last.op = "update_panel" /\ last.ret
    /\ Val(last.args) = PartialCall("s1")
    /\ \E l \in DOMAIN panel_state :
          /\ panel_state[l].sn = "s1"
          /\ Telemetry(panel_state[l]) = PartialPayload
          /\ panel_state[l].node_id = Some("1")
          /\ panel_state[l].last_update = Some(now) /\ now > 0

\* A staleness pass has just run to its end.
StalenessComputed ==
    \/ last.op = "check_staleness"
    \/ last.op = "get_all_panels" /\ last.err = "none"

\* C9: right after a staleness pass at time now, every panel with a last
\* update t0 is stale exactly if now - t0 exceeds the threshold (not at
\* t0 + T, but at t0 + T + 1); right after a matched update the updated
\* panel is not stale.
C9_StaleIffOlderThanThreshold ==
    /\ StalenessComputed =>
          \A l \in DOMAIN panel_state :
             ~IsNone(panel_state[l].last_update) =>
                (panel_state[l].stale <=>
                   now - Val(panel_state[l].last_update) >
                      settings.staleness_threshold_seconds)
    /\ (last.op = "update_panel" /\ last.ret) =>
          ~panel_state[panels_by_sn[Val(last.args).sn].display_label].stale

\* A staleness pass has just found one panel at age T + 1 stale and another
\* at age exactly T not stale.
C9_Witness ==
    /\ last.op = "check_staleness"
    /\ \E l1, l2 \in DOMAIN panel_state :
          /\ ~IsNone(panel_state[l1].last_update)
          /\ ~IsNone(panel_state[l2].last_update)
          /\ now - Val(panel_state[l1].last_update) =
                settings.staleness_threshold_seconds + 1
          /\ panel_state[l1].stale
          /\ now - Val(panel_state[l2].last_update) =
                settings.staleness_threshold_seconds
          /\ ~panel_state[l2].stale

\* C10: a PanelData without a last update is never stale.
C10_NeverUpdatedNeverStale ==
    \A l \in DOMAIN panel_state :
        IsNone(panel_state[l].last_update) => ~panel_state[l].stale

\* A staleness pass has just marked one panel stale and left alone a panel
\* that never received telemetry, after the topology was reloaded.
C10_Witness ==
    /\ StalenessComputed
    /\ \E l1, l2 \in DOMAIN panel_state :
          /\ panel_state[l1].stale
          /\ IsNone(panel_state[l2].last_update)
          /\ ~panel_state[l2].stale
          /\ l2 \notin DOMAIN last_update

----------------------------------------------------------------------------
(* Properties of the read path get_all_panels *)

\* What load_config would install from the files as they are now.
OnDisk == load_config(Self, yaml_file, json_file)

\* The topology source is valid and is not the topology the store holds.
ValidlyChanged ==
    /\ OnDisk.err = "none"
    /\ OnDisk.s.panel_mapping # panel_mapping

\* Every panel's stale flag is the one check_staleness computes at time now.
StaleFlagsFresh ==
    \A l \in DOMAIN panel_state :
        panel_state[l].stale <=>
            /\ ~IsNone(panel_state[l].last_update)
            /\ IsStale(now, Val(panel_state[l].last_update),
                       settings.staleness_threshold_seconds)

\* C11 as stated: once a topology has been loaded, whenever the source on
\* disk is valid and differs from the loaded topology, the next
\* get_all_panels completes, holds the topology of the source and returns a
\* panel for each of its labels, and every returned stale flag is the one
\* computed for the time of the call.
C11_SnapshotReflectsDisk ==
    [][(last'.op = "get_all_panels" /\ ~IsNone(panel_mapping)
           /\ ValidlyChanged) =>
         /\ last'.err = "none"
         /\ panel_mapping' = OnDisk.s.panel_mapping
         /\ Labels(Val(panel_mapping')) \subseteq DOMAIN panel_state'
         /\ StaleFlagsFresh']_vars

\* C11 amended: a get_all_panels call that finds a reload due and a valid
\* source completes, holds the topology of the source and returns a panel
\* for each of its labels; a call that finds no reload due completes on the
\* topology it had, whatever is on disk; every call that completes returns
\* stale flags computed for the time of the call.
C11_SnapshotReloadsWhenDue ==
    [][last'.op = "get_all_panels" =>
         /\ last'.err = "none" => StaleFlagsFresh'
         /\ (ReloadDue /\ OnDisk.err = "none") =>
               /\ last'.err = "none" /\ last'.loaded
               /\ panel_mapping' = OnDisk.s.panel_mapping
               /\ Labels(Val(panel_mapping')) \subseteq DOMAIN panel_state'
         /\ ~ReloadDue =>
               /\ last'.err = "none" /\ ~last'.loaded
               /\ panel_mapping' = panel_mapping]_vars

\* get_all_panels has just replaced a loaded topology by a different one
\* from disk and found a panel stale at the time of the call.
C11_Witness ==
    /\ last.op = "get_all_panels" /\ last.loaded
    /\ last.prev_labels # {}
    /\ last.prev_labels # TopologyLabels
    /\ \E l \in DOMAIN panel_state : panel_state[l].stale

----------------------------------------------------------------------------
(* Properties of batched push delivery *)

\* The snapshot of the last queue_update call before the last batch cycle.
LastQueued == cycle.queued[Len(cycle.queued)]

\* C12 as stated: if one or more queue_update calls came between two batch
\* cycles, the later cycle broadcasts exactly the snapshot of the last of
\* them; nothing else is ever sent by a cycle, and a cycle that finds no
\* pending update sends nothing.
C12_BatchingCoalesces ==
    /\ cycle.queued # <<>> => cycle.sent = Some(LastQueued)
    /\ cycle.sent # None => cycle.queued # <<>>
    /\ ~cycle.pending => cycle.sent = None
    /\ passes["batch"].active => cycle.sent = Some(passes["batch"].message)

\* C12 amended: the cycle broadcasts the snapshot of the last queue_update
\* call since the previous cycle if that snapshot is not empty; an empty last
\* snapshot is not broadcast and stays pending; a cycle without a call since
\* the previous one sends nothing; the messages of the batch pass are the
\* snapshot the cycle took.
C12_BatchingCoalescesNonEmpty ==
    /\ (cycle.queued # <<>> /\ LastQueued # <<>>) =>
          cycle.sent = Some(LastQueued)
    /\ (cycle.queued # <<>> /\ LastQueued = <<>>) =>
          /\ cycle.sent = None
          /\ queued = <<>> => pending_update /\ panel_data = <<>>
    /\ cycle.queued = <<>> => cycle.sent = None
    /\ ~cycle.pending => cycle.sent = None
    /\ passes["batch"].active => cycle.sent = Some(passes["batch"].message)

\* Three queue_update calls came within one batch interval, and the batch
\* pass is writing the third snapshot, which differs from the first two.
C12_Witness ==
    /\ Len(cycle.queued) = 3
    /\ cycle.queued[1] # LastQueued /\ cycle.queued[2] # LastQueued
    /\ cycle.sent = Some(LastQueued)
    /\ passes["batch"].active
    /\ passes["batch"].message = LastQueued
    /\ \E c \in WebSockets : passes["batch"].written[c] = 1

\* C13: when a broadcast pass ends with the writes to the connections F
\* failed, every connection that was registered when the pass began, is
\* still registered with its peer present and is outside F has been written
\* exactly once, and the pass removes exactly F from the registry.
C13_FailureIsolation ==
    [][\A t \in Tasks :
          (passes[t].active /\ ~passes'[t].active) =>
             LET F == Range(passes[t].failed)
             IN  /\ \A c \in Range(passes[t].start) \ F :
                       (c \in Range(active_connections) /\ c \notin broken)
                          => passes[t].written[c] = 1
                 /\ Range(active_connections') =
                       Range(active_connections) \ F]_vars

----------------------------------------------------------------------------
(* Properties of the MQTT client *)

RECURSIVE Pow2(_)
Pow2(k) == IF k = 0 THEN 1 ELSE 2 * Pow2(k - 1)

\* min(2^(k-1) * d0, max), the wait before the retry after the k-th error.
ExpectedWait(k) == Min(Pow2(k - 1) * initial_retry_delay, max_retry_delay)

\* C14 as stated: the wait after the k-th consecutive error since the client
\* last entered its message loop (or since start) is min(2^(k-1)*d0, max).
C14_BackoffSinceSubscribed ==
    phase = "sleeping" => wait = ExpectedWait(run.since_subscribed)

\* C14 amended: the wait after the k-th consecutive error since the client
\* last established a connection (or since start) is min(2^(k-1)*d0, max);
\* the first wait after a connection was established is d0, whether or not
\* the subscriptions succeeded.
C14_BackoffSinceConnected ==
    /\ phase = "sleeping" => wait = ExpectedWait(run.since_connected)
    /\ phase \in {"subscribing", "subscribed", "processing"} =>
          retry_delay = initial_retry_delay

\* The client waits at the cap after more failed connection attempts in a
\* row than doublings fit under the cap.
C14_Witness ==
    /\ phase = "sleeping"
    /\ wait = max_retry_delay
    /\ run.since_connected = 7
    /\ Pow2(6) * initial_retry_delay > max_retry_delay

\* The states of the client's life cycle.
State ==
    CASE phase \in {"idle", "sleeping", "closing"} -> "Disconnected"
      [] phase \in {"connecting", "subscribing"} -> "Connecting"
      [] phase \in {"subscribed", "processing"} -> "Subscribed"
      [] OTHER -> "Stopped"

\* C15: the client moves Disconnected -> Connecting -> Subscribed, back to
\* Disconnected on an error (or when a stop closes the connection) and from
\* Disconnected to Stopped; callbacks are invoked only while it is subscribed
\* to the three topic classes; an error while running puts it into a sleep
\* of the current retry delay, and every such sleep is followed by a new
\* connection attempt unless the client is stopped.
C15_LifeCycle ==
    /\ [][State' # State =>
            <<State, State'>> \in {<<"Disconnected", "Connecting">>,
                                   <<"Connecting", "Subscribed">>,
                                   <<"Connecting", "Disconnected">>,
                                   <<"Subscribed", "Disconnected">>,
                                   <<"Disconnected", "Stopped">>}]_vars
    /\ [](dispatched # <<>> =>
            State = "Subscribed" /\ subscriptions = Range(TopicClasses))
    /\ [][(running /\ ~cancelling /\ State' = "Disconnected"
             /\ State # "Disconnected") =>
            phase' = "sleeping" /\ wait' = retry_delay]_vars
    /\ [][phase = "sleeping" /\ phase' # "sleeping" =>
            phase' = IF cancelling THEN "stopped" ELSE "connecting"]_vars
    /\ (phase = "sleeping") ~> (phase = "connecting" \/ phase = "stopped")

\* After an error in the message loop the client has slept, reconnected and
\* is dispatching a message again.
C15_Witness ==
    /\ phase = "processing"
    /\ dispatched # <<>>
    /\ retry_delay = initial_retry_delay
    /\ run.since_subscribed = 0
    /\ wait = 0
    /\ ~IsNone(inflight) /\ Val(inflight).message.topic = "state"
    /\ Len(dispatched) = 2

\* C16: once stop has returned the connect loop has ended and nothing more
\* happens: no connection attempt, no callback; from the moment stop is
\* requested no connection is opened and no callback is invoked; a stop that
\* arrives during a reconnect sleep ends the loop from the sleep, without
\* the sleep completing.
C16_StopIsFinal ==
    /\ [](stop_returned => phase = "stopped" /\ ~running)
    /\ [][stop_returned => UNCHANGED clientVars]_vars
    /\ [][cancelling =>
            /\ phase' \notin {"connecting", "subscribing", "subscribed",
                              "processing", "sleeping"} \/ phase' = phase
            /\ dispatched' # dispatched => dispatched' = <<>>
            /\ retry_delay' = retry_delay]_vars
    /\ [][(cancelling /\ phase = "sleeping" /\ phase' # phase) =>
            phase' = "stopped"]_vars

\* stop has returned after it arrived during the second reconnect sleep.
C16_Witness ==
    /\ stop_returned
    /\ phase = "stopped"
    /\ wait = 2 * initial_retry_delay
    /\ retry_delay = wait

\* The payloads C17 calls malformed.
ListOfIntegers(payload) ==
    /\ payload.kind = "list"
    /\ \A i \in DOMAIN payload.items : payload.items[i].t = "int"

Malformed(message) ==
    \/ message.payload.kind = "garbage"
    \/ message.topic = "temp_nodes" /\ ~ListOfIntegers(message.payload)
    \/ message.topic = "node_mappings" /\ message.payload.kind # "dict"

\* C17: a message that is malformed, or whose callback raises, leaves the
\* client subscribed on the same connection with its retry delay unchanged;
\* no callback is invoked for a malformed message; the loop then goes on to
\* the next message.
C17_DataErrorsKeepConnection ==
    /\ [][(phase = "subscribed" /\ phase' = "processing"
              /\ (Malformed(Val(inflight').message) \/ Val(inflight').raises)) =>
            /\ subscriptions' = subscriptions
            /\ retry_delay' = retry_delay
            /\ Malformed(Val(inflight').message) => dispatched' = <<>>]_vars
    /\ [][(phase = "processing" /\ phase' # phase /\ ~cancelling) =>
            /\ phase' = "subscribed"
            /\ subscriptions' = subscriptions
            /\ retry_delay' = retry_delay]_vars

----------------------------------------------------------------------------
(* Properties of discovery *)

\* A label made of one or more letters followed by one or more digits and
\* nothing else; k is the number of letters.
LettersThenDigits(str, k) ==
    /\ 1 <= k /\ k < Len(str)
    /\ \A i \in 1..k : str[i] \in LetterChars
    /\ \A i \in (k + 1)..Len(str) : str[i] \in DigitChars

\* C18: parse_tigo_label returns a value exactly for the labels made of
\* letters followed by digits and nothing else, and the value is the letters
\* uppercased and the digits as a number; every other label gives None.
C18_ParseExactlyLettersDigits ==
    parsed.done =>
        IF \E k \in 1..Len(raw_label) : LettersThenDigits(raw_label, k)
        THEN LET k == CHOOSE k \in 1..Len(raw_label) :
                          LettersThenDigits(raw_label, k)
             IN  Val(parsed.value) =
                    Some([string |-> [i \in 1..k |-> Upper(raw_label[i])],
                          position |->
                             IntOfDigits(SubSeq(raw_label, k + 1,
                                                Len(raw_label)))])
        ELSE Val(parsed.value) = None

\* The serial of the sighting is the serial of a known panel.
KnownSerial == \E i \in DOMAIN known_panels :
                   known_panels[i].serial = discovered.serial

\* C19: a sighting whose serial is the serial of a known panel is matched
\* with confidence high to that known panel, whatever the topology and the
\* raw label are.
C19_KnownSerialWins ==
    (match_result.done /\ KnownSerial) =>
        LET r == Val(match_result.value)
        IN  /\ r.status = "matched"
            /\ r.confidence = Some("high")
            /\ ~IsNone(r.panel)
            /\ Val(r.panel) \in Range(known_panels)
            /\ Val(r.panel).serial = discovered.serial

\* A sighting with a known serial, a label that does not parse and the
\* serial not first in the list has been matched to its known panel.
C19_Witness ==
    /\ match_result.done /\ KnownSerial
    /\ IsNone(parse_tigo_label(discovered.tigo_label))
    /\ discovered.tigo_label # <<>>
    /\ Len(known_panels) = 2
    /\ known_panels[2].serial = discovered.serial
    /\ Val(match_result.value).panel = Some(known_panels[2])
    /\ Val(match_result.value).confidence = Some("high")

\* The system's topology has a string of that name that contains the
\* position: positions of a string run from 1 to its panel count.
DefinesPosition(cca, string_name, position) ==
    \E j \in DOMAIN cca.strings :
        /\ cca.strings[j].name = string_name
        /\ 1 <= position /\ position <= cca.strings[j].panel_count

\* C20: the result is possible_wiring_issue exactly when the serial is
\* unknown, the label parses, the reporting system defines no string of the
\* parsed name containing the parsed position and some other system does;
\* it then names the reporting system and such another system; when the
\* reporting system defines the string and position (serial unknown), the
\* result is matched with confidence medium.
C20_CrossSystemFallback ==
    match_result.done =>
        LET r == Val(match_result.value)
            p == parse_tigo_label(discovered.tigo_label)
            Defining == {i \in DOMAIN expected_topology :
                            DefinesPosition(expected_topology[i],
                                            Val(p).string, Val(p).position)}
            Same == {i \in Defining :
                        expected_topology[i].name = discovered.cca}
            Other == Defining \ Same
        IN  /\ r.status = "possible_wiring_issue" <=>
                  (~KnownSerial /\ ~IsNone(p) /\ Same = {} /\ Other # {})
            /\ r.status = "possible_wiring_issue" =>
                  /\ r.reported_cca = Some(discovered.cca)
                  /\ \E i \in Other :
                        r.expected_cca = Some(expected_topology[i].name)
            /\ (~KnownSerial /\ ~IsNone(p) /\ Same # {}) =>
                  /\ r.status = "matched"
                  /\ r.confidence = Some("medium")

----------------------------------------------------------------------------
(* Properties of node identifiers and temporary enumeration *)

\* The node id of a Panel State as an integer, and the temp-node set of a
\* system (empty when none was reported).
NodeInt(pd) == Val(ParseInt(Val(pd.node_id)))

TempSet(nodes, system) ==
    IF system \in DOMAIN nodes THEN nodes[system] ELSE {}

\* C25: in every reachable state, every Panel State with a known node
\* identifier has is_temporary equal to (node identifier is in the temp-node
\* set of the panel's system), whatever telemetry, temp-node updates,
\* node-mapping updates and topology reloads came before.
C25_FlagMatchesTempSet ==
    \A l \in DOMAIN panel_state :
        ~IsNone(panel_state[l].node_id) =>
            panel_state[l].is_temporary =
                (NodeInt(panel_state[l])
                    \in TempSet(temp_nodes, panel_state[l].system))

TempNodesStep == last'.op = "update_temp_nodes"

\* C26: update_temp_nodes(system, node_ids) makes set(node_ids) the temp-node
\* set of that system whatever it was; it sets is_temporary of every Panel
\* State of that system with a node identifier to (node identifier in
\* node_ids) and changes nothing else of it; the temp-node sets of the other
\* systems, the Panel States of the other systems and those without a node
\* identifier stay as they are.
C26_TempNodesReplace ==
    [][TempNodesStep =>
         LET a == Val(last'.args)
             ids == {a.node_ids[i] : i \in DOMAIN a.node_ids}
         IN  /\ a.system \in DOMAIN temp_nodes'
             /\ temp_nodes'[a.system] = ids
             /\ DOMAIN temp_nodes' = DOMAIN temp_nodes \cup {a.system}
             /\ \A sys \in DOMAIN temp_nodes \ {a.system} :
                   temp_nodes'[sys] = temp_nodes[sys]
             /\ DOMAIN panel_state' = DOMAIN panel_state
             /\ \A l \in DOMAIN panel_state :
                   IF /\ panel_state[l].system = a.system
                      /\ ~IsNone(panel_state[l].node_id)
                   THEN panel_state'[l] =
                           [panel_state[l] EXCEPT
                              !.is_temporary = NodeInt(panel_state[l]) \in ids]
                   ELSE panel_state'[l] = panel_state[l]]_vars

\* An empty list has just replaced the primary system's temp-node set: a
\* primary panel with a node id is no longer flagged, while the secondary
\* system keeps its set and its flagged panel.
C26_Witness ==
    /\ last.op = "update_temp_nodes"
    /\ Val(last.args).system = "primary"
    /\ Val(last.args).node_ids = <<>>
    /\ temp_nodes["primary"] = {}
    /\ "secondary" \in DOMAIN temp_nodes /\ temp_nodes["secondary"] = {1, 2}
    /\ \E l \in DOMAIN panel_state :
          /\ panel_state[l].system = "primary"
          /\ panel_state[l].node_id = Some("1")
          /\ ~panel_state[l].is_temporary
    /\ \E l \in DOMAIN panel_state :
          /\ panel_state[l].system = "secondary"
          /\ panel_state[l].node_id = Some("2")
          /\ panel_state[l].is_temporary

NodeMappingsStep == last'.op = "update_node_mappings"

\* C27: update_node_mappings(system, mapping) stores the mapping for that
\* system; every Panel State of that system whose serial is a value of the
\* mapping gets a node id that the mapping maps to its serial and
\* is_temporary equal to (that node id in the system's temp-node set), with
\* nothing else of it changed; the Panel States of that system whose serial
\* is not in the mapping and those of other systems stay as they are.
C27_NodeMappingsBackfill ==
    [][NodeMappingsStep =>
         LET a == Val(last'.args)
             serials == {a.mappings[i].serial : i \in DOMAIN a.mappings}
         IN  /\ a.system \in DOMAIN node_mappings'
             /\ node_mappings'[a.system] = a.mappings
             /\ temp_nodes' = temp_nodes
             /\ DOMAIN panel_state' = DOMAIN panel_state
             /\ \A l \in DOMAIN panel_state :
                   IF /\ panel_state[l].system = a.system
                      /\ panel_state[l].sn \in serials
                   THEN \E i \in DOMAIN a.mappings :
                           /\ a.mappings[i].serial = panel_state[l].sn
                           /\ panel_state'[l] =
                                 [panel_state[l] EXCEPT
                                    !.node_id = Some(a.mappings[i].node_id),
                                    !.is_temporary =
                                        Val(ParseInt(a.mappings[i].node_id))
                                           \in TempSet(temp_nodes, a.system)]
                   ELSE panel_state'[l] = panel_state[l]]_vars

\* A mapping for the primary system has just given panel A2 (serial s2) a
\* node id that is in the primary temp-node set, so that the panel is now
\* flagged; panel A1, whose serial is not in the mapping, keeps its node id.
C27_Witness ==
    /\ last.op = "update_node_mappings"
    /\ Val(last.args).system = "primary"
    /\ Len(Val(last.args).mappings) = 2
    /\ "primary" \in DOMAIN temp_nodes /\ temp_nodes["primary"] = {1, 2}
    /\ "A2" \in DOMAIN panel_state
    /\ panel_state["A2"].system = "primary"
    /\ panel_state["A2"].node_id \in {Some("1"), Some("2")}
    /\ panel_state["A2"].is_temporary
    /\ "A1" \in DOMAIN panel_state
    /\ panel_state["A1"].node_id = Some("1")

----------------------------------------------------------------------------
(* Properties of the periodic tasks and of the registry *)

\* The pass of task t is suspended in a write that never completes.
StuckAt(t) ==
    /\ passes[t].active
    /\ passes[t].idx <= Len(active_connections)
    /\ active_connections[passes[t].idx] \in stalled

\* The send_json calls a pass has made for a connection, failed ones included.
Attempts(pass, c) ==
    pass.written[c] + Cardinality({i \in DOMAIN pass.failed : pass.failed[i] = c})

\* C21: a write that never completes holds up nothing but itself: while a
\* batch or heartbeat pass waits in such a write, every other registered
\* connection whose writes complete has been written in that pass, and
\* queue_update is not blocked.
C21_SlowViewerCannotStall ==
    \A t \in {"batch", "heartbeat"} :
        StuckAt(t) =>
            /\ \A c \in Range(active_connections) \ stalled :
                  Attempts(passes[t], c) >= 1
            /\ ~Locked
\* The list without the given connection, the others in their order.
Without(connections, websocket) ==
    SelectSeq(connections, LAMBDA c : c # websocket)

\* The connection of the disconnect call made in this step.
Called == disconnects'[Len(disconnects')]

\* C23: disconnect on a connection that is not registered leaves the
\* registry as it is; on a registered one it removes that connection and
\* keeps every other one, in order; a call that repeats the one before it
\* changes nothing.
C23_DisconnectIdempotent ==
    [][disconnects' # disconnects =>
          /\ Called \notin Range(active_connections) =>
                active_connections' = active_connections
          /\ active_connections' = Without(active_connections, Called)
          /\ (disconnects # <<>> /\ disconnects[Len(disconnects)] = Called)
                => active_connections' = active_connections]_vars

\* disconnect has been called twice in a row for the middle one of three
\* registered connections and then for a connection that was not
\* registered; the other two are still registered, in their order.
C23_Witness ==
    /\ Len(disconnects) = 3
    /\ disconnects[1] = disconnects[2]
    /\ disconnects[3] = disconnects[1]
    /\ Len(active_connections) = 2
    /\ \E c \in WebSockets \ Range(active_connections) :
          Range(disconnects) = {c}
\* A periodic task exists or is running a pass.
PeriodicTaskLeft ==
    \/ loops.batch > 0 \/ loops.heartbeat > 0
    \/ passes["batch"].active \/ passes["heartbeat"].active
    \/ ~IsNone(batch_task) \/ ~IsNone(heartbeat_task)

\* A step in which the batch loop or the heartbeat loop starts a pass or
\* writes to a connection.
PeriodicSend ==
    \E t \in {"batch", "heartbeat"} :
        \/ ~passes[t].active /\ passes'[t].active
        \/ passes[t].active /\ passes'[t].idx = passes[t].idx + 1

\* C24: at most one batch loop and at most one heartbeat loop run at any
\* time, however often the tasks are started; once stop_background_tasks
\* has returned, no periodic task is left and no pass or write of a
\* periodic task happens any more.
C24_OneCycleEachUntilStopped ==
    /\ loops.batch <= 1 /\ loops.heartbeat <= 1
    /\ stopping = "returned" => ~PeriodicTaskLeft
    /\ stopping = "returned" => ~ENABLED BatchCycle /\ ~ENABLED HeartbeatCycle
    /\ stopping = "returned" =>
          ~ENABLED BroadcastSend({"batch", "heartbeat"})

\* The tasks were started twice and stopped while the batch loop was in a
\* pass that had written to one of two clients: stop has returned with a
\* snapshot still pending and both clients registered.
C24_Witness ==
    /\ stopping = "returned"
    /\ starts = 2
    /\ pending_update
    /\ Len(active_connections) = 2
    /\ \A c \in Range(active_connections) : endpoint[c] = "receiving"
\* C30: when a pass of the heartbeat loop or of a broadcast ends, every
\* connection that was registered when it began and is registered at its end
\* has been written exactly once in it, whatever connects and disconnects
\* came in between.
C30_PassWritesEachOnce ==
    [][\A t \in Tasks :
          (passes[t].active /\ ~passes'[t].active) =>
             \A c \in Range(passes[t].start) \cap Range(active_connections) :
                Attempts(passes[t], c) = 1]_vars
\* A batch cycle that follows at least one queue_update call begins.
CycleAfterQueueing == queued # <<>> /\ queued' = <<>>

\* C29 as stated: the flag is cleared only when the batch loop has broadcast
\* the snapshot that is stored at that moment, with nothing queued since; a
\* snapshot that was queued stays stored and pending until then; and a batch
\* cycle that finds a pending update broadcasts the stored snapshot.
C29_QueuedNeverLost ==
    [][/\ (pending_update /\ ~pending_update') =>
             /\ cycle'.sent = Some(panel_data)
             /\ panel_data' = panel_data /\ queued' = <<>>
       /\ queued' # <<>> =>
             pending_update' /\ panel_data' = queued'[Len(queued')]
       /\ CycleAfterQueueing => cycle'.sent = Some(panel_data)]_vars

\* C29 amended: as above, except that a batch cycle that finds an empty
\* snapshot pending broadcasts nothing and leaves it stored and pending.
C29_QueuedNeverLostNonEmpty ==
    [][/\ (pending_update /\ ~pending_update') =>
             /\ cycle'.sent = Some(panel_data)
             /\ panel_data' = panel_data /\ queued' = <<>>
       /\ queued' # <<>> =>
             pending_update' /\ panel_data' = queued'[Len(queued')]
       /\ (CycleAfterQueueing /\ panel_data # <<>>) =>
             cycle'.sent = Some(panel_data)
       /\ (CycleAfterQueueing /\ panel_data = <<>>) =>
             /\ cycle'.sent = None
             /\ pending_update' /\ panel_data' = <<>>]_vars

\* A batch pass that wrote the queued snapshot to two clients has ended and
\* cleared the flag; nothing has been queued since.
C29_Witness ==
    /\ ~pending_update
    /\ cycle.sent = Some(panel_data)
    /\ cycle.queued # <<>>
    /\ panel_data = <<"p1", "p2">>
    /\ queued = <<>>
    /\ ~passes["batch"].active
    /\ Len(active_connections) = 2
\* Nothing is left to deliver: no update is pending and no pass is running.
Quiescent ==
    /\ ~pending_update
    /\ \A t \in Tasks : ~passes[t].active

\* C22: a viewer that stays registered and whose writes succeed converges to
\* the store: whenever nothing is left to deliver, the last snapshot written
\* to the viewer is the state the store holds.
C22_ViewerConverges ==
    \A c \in Range(active_connections) :
        (Quiescent /\ endpoint[c] = "receiving") =>
            screen[c] = Some(PanelList(panel_state))
\* C28: the store operations exclude each other: at most one task is inside
\* a store operation at any time and it is the task that holds the event
\* loop, so no operation begins while another is partway through, whatever
\* the interleaving of the message loop, the mock refresh loop, the request
\* handlers, the endpoints and the batch and heartbeat loops.
C28_StoreOpsExclusive ==
    /\ Cardinality(inside) <= 1
    /\ \A t \in inside : current = Some(t)
    /\ \A t \in LoopTasks :
          (current # Some(t) /\ handler_at[t] # Idle) => t \notin inside

\* The message loop is in the middle of update_panel while a request
\* handler and a WebSocket endpoint are suspended between their store
\* operation and the end of their handler.
C28_Witness ==
    /\ inside = {"ingest"}
    /\ handler_at["ingest"] = [handler |-> "handle_mqtt_message", i |-> 1]
    /\ handler_at["request"] = [handler |-> "reload_config", i |-> 3]
    /\ handler_at["endpoint"].handler = "websocket_endpoint"
    /\ handler_at["endpoint"].i = 3
    /\ handler_at["batch"] # Idle

----------------------------------------------------------------------------
(* Properties of the heartbeat cycle *)

\* The heartbeat pass ends in this step.
HeartbeatPassEnds == passes["heartbeat"].active /\ ~passes'["heartbeat"].active

\* A connection leaves the registry in this step by the disconnect of its
\* own endpoint or at the end of a pass in which a write to it failed.
LeavesByDisconnectOrFailure(c) ==
    \/ endpoint[c] = "receiving" /\ endpoint'[c] = "closed"
    \/ \E t \in Tasks :
          /\ passes[t].active /\ ~passes'[t].active
          /\ c \in Range(passes[t].failed)

\* The parts of the heartbeat claim that concern removal: the end of a
\* heartbeat pass removes exactly the connections whose ping failed, the
\* loop stays alive, and a connection leaves the registry only by its
\* disconnect or after one of its own writes failed.
HeartbeatRemovesExactlyFailed ==
    [][/\ HeartbeatPassEnds =>
             /\ Range(active_connections') =
                   Range(active_connections) \ Range(passes["heartbeat"].failed)
             /\ loops'.heartbeat = loops.heartbeat /\ loops.heartbeat > 0
       /\ \A c \in Range(active_connections) \ Range(active_connections') :
             LeavesByDisconnectOrFailure(c)]_vars

\* C31: when a heartbeat pass ends, every connection that is registered has
\* been sent one ping in it, whether or not pings to others failed; exactly
\* the connections whose ping failed are removed, after the pass; the loop
\* keeps running; and a connection leaves the registry only by explicit
\* disconnect or after one of its own writes failed.
C31_HeartbeatPingsAll ==
    [][/\ HeartbeatPassEnds =>
             /\ \A c \in Range(active_connections) \cap
                           Range(passes["heartbeat"].start) :
                   Attempts(passes["heartbeat"], c) = 1
             /\ Range(active_connections') =
                   Range(active_connections) \ Range(passes["heartbeat"].failed)
             /\ loops'.heartbeat = loops.heartbeat /\ loops.heartbeat > 0
       /\ \A c \in Range(active_connections) \ Range(active_connections') :
             LeavesByDisconnectOrFailure(c)]_vars

----------------------------------------------------------------------------
(* Properties of topic demultiplexing *)

\* A message has been routed in this step.
Routed == phase = "subscribed" /\ phase' = "processing"

\* The callback that belongs to a topic, by its last segment.
CallbackOf(topic) ==
    CASE topic[Len(topic)] = "state" -> "on_message"
      [] topic[Len(topic)] = "temp_nodes" -> "on_temp_nodes"
      [] topic[Len(topic)] = "node_mappings" -> "on_node_mappings"
      [] OTHER -> "none"

\* The records of a state payload that carry a serial, in payload order.
WithSerial(payload) ==
    IF payload.kind # "dict" THEN <<>>
    ELSE SelectSeq(payload.nodes,
                   LAMBDA r : /\ "node_serial" \in DOMAIN r
                              /\ r["node_serial"] \notin {Null, ""})

\* The value of a record's attribute, absent if the record does not have it.
Attribute(r, key) ==
    IF key \in DOMAIN r /\ r[key] # Null THEN Some(r[key]) ELSE None

\* Every invocation is of the callback of the topic and carries the system
\* named by the topic's second segment.
OnlyOwnCallback(message, calls) ==
    \A i \in DOMAIN calls :
        /\ calls[i].callback = CallbackOf(message.topic)
        /\ calls[i].system = Some(message.topic[2])

----------------------------------------------------------------------------
(* Properties of the discovery service *)

\* A running loop has processed a state message in this step.
SightStep ==
    /\ ~IsNone(sighting')
    /\ now' = now
    /\ sighted \subseteq sighted'
    /\ <<sighting, emitted, discovered_panels>>'
          # <<sighting, emitted, discovered_panels>>

\* The records of a message that are sightings of a device, in order.
Sightings(message) ==
    SelectSeq(message.nodes,
              LAMBDA r : "node_serial" \in DOMAIN r /\ r["node_serial"] # "")

\* Sighting i of a message is the first one of its serial since the last
\* clear.
FirstSighting(records, i) ==
    /\ records[i]["node_serial"] \notin sighted
    /\ \A j \in 1..(i - 1) :
          records[j]["node_serial"] # records[i]["node_serial"]

\* C33: between two clears the first sighting of a serial records it and
\* emits one "panel_discovered" event, every later sighting of it emits one
\* "panel_updated" event and no "panel_discovered" event; the discovered map
\* holds exactly the serials sighted since the last clear, and a clear
\* empties it.
C33_AnnouncedOnce ==
    /\ [](DOMAIN discovered_panels = sighted)
    /\ [][SightStep =>
            LET records == Sightings(Val(sighting'))
            IN  /\ Len(emitted') = Len(records)
                /\ \A i \in DOMAIN records :
                      /\ emitted'[i].serial = records[i]["node_serial"]
                      /\ emitted'[i].type =
                            IF FirstSighting(records, i)
                            THEN "panel_discovered" ELSE "panel_updated"
                      /\ records[i]["node_serial"] \in DOMAIN discovered_panels']_vars
    /\ [][(sighted # {} /\ sighted' = {}) =>
             discovered_panels' = EmptyMap]_vars

\* One message has sighted s2 twice: the first sighting announced it, the
\* second one updated it.
C33_Witness ==
    /\ ~IsNone(sighting)
    /\ Len(Sightings(Val(sighting))) = 2
    /\ Len(emitted) = 2
    /\ emitted[1].type = "panel_discovered" /\ emitted[1].serial = "s2"
    /\ emitted[2].type = "panel_updated" /\ emitted[2].serial = "s2"
    /\ DOMAIN discovered_panels = {"s2"}

\* The last record of a message that sights the serial.
LastSightingOf(records, serial) ==
    records[CHOOSE i \in DOMAIN records :
               /\ records[i]["node_serial"] = serial
               /\ \A j \in DOMAIN records :
                     records[j]["node_serial"] = serial => j <= i]

\* The times of a known panel after a sighting: last seen now, first seen
\* as before.
SightingStampsKnown ==
    [][SightStep =>
          \A serial \in DOMAIN discovered_panels :
             serial \in {r["node_serial"] : r \in Range(Sightings(Val(sighting')))} =>
                /\ discovered_panels'[serial].last_seen_at = now
                /\ discovered_panels'[serial].discovered_at =
                      discovered_panels[serial].discovered_at]_vars

\* C34: a sighting of a known serial makes the panel's telemetry the values
\* observed in that sighting, a reading of zero included, and its last-seen
\* time the time of the sighting, and leaves its first-seen time unchanged.
C34_KnownSightingUpdates ==
    [][SightStep =>
          LET records == Sightings(Val(sighting'))
          IN  \A serial \in DOMAIN discovered_panels :
                 serial \in {r["node_serial"] : r \in Range(records)} =>
                    LET observed == LastSightingOf(records, serial)
                        panel == discovered_panels'[serial]
                    IN  /\ "power" \in DOMAIN observed =>
                              panel.watts = observed["power"]
                        /\ "voltage_in" \in DOMAIN observed =>
                              panel.voltage = observed["voltage_in"]
                        /\ panel.last_seen_at = now
                        /\ panel.discovered_at =
                              discovered_panels[serial].discovered_at]_vars

\* C40: at most one discovery loop runs at a time and every running loop is
\* the task the service refers to, under every interleaving of
\* start_discovery and stop_discovery; once every stop_discovery call has
\* returned after the last start, no loop is running.
C40_OneTrackedLoop ==
    /\ Cardinality({t \in LoopTaskIds : loop_tasks[t] = "running"}) <= 1
    /\ \A t \in LoopTaskIds : loop_tasks[t] = "running" => mqtt_task = Some(t)
    /\ (~service_running /\ \A c \in StopCallers : IsNone(stops[c])) =>
          \A t \in LoopTaskIds : loop_tasks[t] \in {"none", "done"}

----------------------------------------------------------------------------
(* Properties of the match against the expected topology *)

\* The parsed label of the sighting.
ParsedLabel == parse_tigo_label(discovered.tigo_label)

\* The systems of the topology that define the parsed string with the
\* parsed position in it.
DefiningSystems ==
    {i \in DOMAIN expected_topology :
        DefinesPosition(expected_topology[i], Val(ParsedLabel).string,
                        Val(ParsedLabel).position)}

\* The result is the suggestion of the same-system match.
MediumSuggestion(r) ==
    /\ r.status = "matched"
    /\ r.confidence = Some("medium")
    /\ IsNone(r.panel)
    /\ r.suggested_label = Some(discovered.tigo_label)

\* C35: for a sighting with an unknown serial and a label that parses, the
\* result is matched with confidence medium and no fixed panel exactly when
\* the topology of the reporting system defines a string of the parsed name
\* and the parsed position is between 1 and that string's panel count.
C35_SameSystemMatch ==
    (match_result.done /\ ~KnownSerial /\ ~IsNone(ParsedLabel)) =>
        (MediumSuggestion(Val(match_result.value)) <=>
            \E i \in DefiningSystems :
                expected_topology[i].name = discovered.cca)

\* C36: for a sighting with an unknown serial whose label does not parse,
\* the result is unmatched with the format error set and needs_translation
\* false, whatever the topology is.
C36_ParseFailureStops ==
    (match_result.done /\ ~KnownSerial /\ IsNone(ParsedLabel)) =>
        LET r == Val(match_result.value)
        IN  /\ r.status = "unmatched"
            /\ r.error
            /\ ~r.needs_translation
            /\ IsNone(r.panel) /\ IsNone(r.confidence)
            /\ IsNone(r.suggested_label) /\ IsNone(r.expected_cca)

\* A sighting of the primary system with an unknown serial and the label
\* "1A" has been matched against a topology whose primary system has a
\* string A: unmatched with the format error.
C36_Witness ==
    /\ match_result.done /\ ~KnownSerial
    /\ discovered.tigo_label = <<"1", "A">>
    /\ discovered.cca = "primary"
    /\ \E i \in DOMAIN expected_topology :
          /\ expected_topology[i].name = "primary"
          /\ DefinesPosition(expected_topology[i], <<"A">>, 1)
    /\ Val(match_result.value).status = "unmatched"
    /\ Val(match_result.value).error

\* The five outcomes of the match.
Outcome(r) ==
    CASE r.status = "matched" /\ r.confidence = Some("high") -> "known"
      [] r.status = "matched" /\ r.confidence = Some("medium") -> "suggested"
      [] r.status = "possible_wiring_issue" -> "wiring"
      [] r.status = "unmatched" /\ r.error /\ ~r.needs_translation -> "format"
      [] r.status = "unmatched" /\ ~r.error /\ r.needs_translation ->
            "translation"
      [] OTHER -> "none"

\* C37: the result is unmatched with needs_translation and no error exactly
\* when the serial is unknown, the label parses and no system of the
\* topology defines a string of the parsed name that contains the parsed
\* position; every call returns one of the five outcomes.
C37_NoMatchAnywhere ==
    match_result.done =>
        /\ Outcome(Val(match_result.value)) # "none"
        /\ Outcome(Val(match_result.value)) = "translation" <=>
              (~KnownSerial /\ ~IsNone(ParsedLabel) /\ DefiningSystems = {})

----------------------------------------------------------------------------
(* Properties of the retry delay *)

\* C38: the retry delay of the client always lies between the floor and the
\* cap and is a power-of-two multiple of the floor or the cap; it changes
\* only by the reset to the floor when a connection is established or by the
\* capped doubling after a completed reconnect wait.
C38_RetryDelayBounded ==
    /\ [](/\ initial_retry_delay <= retry_delay
          /\ retry_delay <= max_retry_delay
          /\ \/ retry_delay = max_retry_delay
             \/ \E k \in 0..6 : retry_delay = Pow2(k) * initial_retry_delay)
    /\ [][retry_delay' # retry_delay =>
            \/ /\ phase = "connecting" /\ phase' = "subscribing"
               /\ retry_delay' = initial_retry_delay
            \/ /\ phase = "sleeping" /\ phase' # "sleeping"
               /\ retry_delay' = 2 * retry_delay \/ retry_delay' = max_retry_delay
               /\ retry_delay' <= 2 * retry_delay]_vars

\* The delay has been doubled up to the cap: the client reconnects after a
\* wait of 32 with the delay at 60.
C38_Witness ==
    /\ phase = "connecting"
    /\ retry_delay = max_retry_delay
    /\ run.since_connected = 6

----------------------------------------------------------------------------
(* Properties of the dynamic fields across a reload *)

\* The fields of PanelData that a load copies from the previous state
\* besides the telemetry.
CopiedDynamicFields ==
    {"node_id", "online", "stale", "is_temporary", "last_update"}

\* A successful load leaves the copied dynamic fields of every surviving
\* label as they were.
ReloadKeepsCopiedFields ==
    [][LoadedStep =>
         \A l \in TopologyLabels \cap TopologyLabels' :
            \A f \in CopiedDynamicFields :
               panel_state'[l][f] = panel_state[l][f]]_vars

\* C39: a successful load leaves the node identifier, the online, stale and
\* temporarily-enumerated flags, the last-update time and the identifier of
\* the system that delivered the last update of every surviving label as
\* they were.
C39_ReloadKeepsDynamicFields ==
    [][LoadedStep =>
         \A l \in TopologyLabels \cap TopologyLabels' :
            \A f \in CopiedDynamicFields \cup {"actual_system"} :
               panel_state'[l][f] = panel_state[l][f]]_vars

====
